---- MODULE Spec2Model ----
(***************************************************************************)
(* Model of primenet.py: the PrimeNet assignment/protocol engine.          *)
(*                                                                         *)
(* The model follows one worker directory through the main polling loop    *)
(* (submit_work, update_progress_all, get_assignments) and through the     *)
(* --unreserve-all run mode.  Every v5 request/response exchange           *)
(* (send_request) is one step; the answer of the server is an input drawn  *)
(* from Answers.  The protocol functions call each other recursively       *)
(* (register_instance -> program_options -> register_instance ...), so the *)
(* Python call stack is a variable of the model.                           *)
(*                                                                         *)
(* Abstractions:                                                           *)
(*  - a workfile line is a record [uid, ok]: its assignment id (0 = the    *)
(*    line carries none) and whether parse_assignment accepts it;          *)
(*  - a results line is a record [line, aid];                              *)
(*  - `return f(..., retry_count + 1)` is a tail call: it is modelled as   *)
(*    the same frame with retry_count incremented;                         *)
(*  - files are handled at line granularity (every file ends in a newline).*)
(***************************************************************************)
EXTENDS Integers, Sequences, FiniteSets, TLC

VARIABLES
    pc,            \* position of the main program (unreserve_all: cycle counts runs)
    stack,         \* call stack of the protocol functions (bottom = the operation)
    ret,           \* value returned by the last finished operation
    config,        \* local.ini: [ComputerGUID, NoMoreWork]
    workfile,      \* worktodo file of the worker: sequence of task lines
    results_sent,  \* results_sent.txt: sequence of result lines
    results_send,  \* submit_work: lines still to submit in this cycle
    sent,          \* submit_work: lines submitted successfully in this cycle
    assignments,   \* update_progress_all / unreserve_all: assignments still to treat
    progress,      \* value returned by update_progress_all
    num_to_get,    \* get_assignments: the deficit
    tests,         \* primenet_fetch: lines fetched so far
    got,           \* main loop: value returned by get_assignments (-1 = not yet)
    cycle,         \* number of finished polling cycles
    \* history variables (observers, never read by the program)
    nsent,         \* requests of its own type the current invocation has sent
    opRc,          \* answer to the latest of them
    ucSince,       \* a uc request was sent since that answer
    nga,           \* get_assignment calls made by the current get_assignments
    opFn,          \* transaction type of the current/last invocation
    sentTo,        \* result line of the current/last report_result invocation
    rejected,      \* result lines of finished report_result calls that the
                   \* server answered with invalid parameter
    \* the proof upload task (aupload_proofs)
    thread,        \* position of the task ("none": no task exists)
    proofdir,      \* number of .proof files in the proof directory (0 or 1)
    retrying,      \* the file was left in place by an earlier upload_proofs
    fileSize,      \* upload_proof: os.path.getsize(filename)
    pos,           \* upload_proof: offset of the next chunk
    end,           \* upload_proof: end of the interval the server needs
    upret,         \* value upload_proof returned
    \* history variables of the current upload_proof call
    lastChunk,     \* DataOffset and DataSize of the last chunk sent
    upReply,       \* the reply that ended the call: the request it answered, its kind
    \* send_request on its own
    response,      \* what came back for the latest request
    result,        \* what the latest call returned or raised
    gets,          \* HTTP GET requests issued so far
    calls,         \* calls of send_request so far
    \* parse_assignment on its own
    queue_line,    \* the line handed to the call
    parsed,        \* what the call returned or raised
    \* parse_assignment on a well-formed line
    new_task,      \* the line, with the values of its fields
    assignment,    \* the Assignment returned, or None
    \* the loop of get_assignments over the fetched lines
    new_tasks_i,   \* the line written back to new_tasks[i], if any
    reparsed,      \* what parse_assignment returns for that line
    \* compute_progress for one assignment over the polling cycles
    sampled,       \* the assignment and the stage units of its log
    iteration,     \* the iteration last read from the log (-1: none yet)
    percent,       \* the percent last computed
    last_percent,  \* the percent computed the time before
    \* walk over the P-1 bounds
    walk_pc,       \* position of the call ("none": not called)
    walk_B,        \* the current point: B1, B2
    walk_gain,     \* (p, w): the gain at the current point
    small,         \* smallB1, smallB2 (0: not recorded)
    mid,           \* midB1, midB2 (0: not recorded)
    visited,       \* the points the loop has evaluated, with their ratios
    \* the arguments send_request transmits
    program_idx,   \* idx: index into the programs array
    args,          \* the arguments of the latest request, ss and sh included
    prev_args,     \* the arguments of the request before
    \* the upload server
    stored,        \* the number of bytes of the proof file the server holds
    \* the main loop, call by call
    options,       \* the options: number of dirs, password, timeout
    primenet_login, \* the global flag
    login,         \* what the login request of this cycle led to
    loop_pc,       \* position in the loop ("none": not followed)
    worker,        \* i + 1 for the directory dirs[i] being treated
    events,        \* the calls made in this cycle, in order
    loops,         \* number of cycles that wrote LastEndDatesSent
    \* get_assignments and the size of the queue
    cache,         \* the options and the configuration the depth comes from
    initial_size,  \* distinct-id assignments in the queue at start-up
    num_existing,  \* distinct-id assignments in the queue
    fetch,         \* the latest call: target depth, queue size, fetch made
    \* update_progress_all and the ETAs of one cycle
    eta_mode,      \* the program option, the timeout, a speed sample or none
    cur_time_left, \* the time left accumulated over the queue
    sent_e         \* per assignment treated: its time left, the ETA sent

vars == <<pc, stack, ret, config, workfile, results_sent, results_send, sent,
          assignments, progress, num_to_get, tests, got, cycle,
          nsent, opRc, ucSince, nga, opFn, sentTo, rejected,
          thread, proofdir, retrying, fileSize, pos, end, upret,
          lastChunk, upReply,
          response, result, gets, calls, queue_line, parsed,
          new_task, assignment, new_tasks_i, reparsed,
          sampled, iteration, percent, last_percent,
          walk_pc, walk_B, walk_gain, small, mid, visited,
          program_idx, args, prev_args, stored,
          options, primenet_login, login, loop_pc, worker, events, loops,
          cache, initial_size, num_existing, fetch,
          eta_mode, cur_time_left, sent_e>>

\* the variables of the proof upload task
uploadVars == <<thread, proofdir, retrying, fileSize, pos, end, upret,
                lastChunk, upReply>>

\* what the protocol functions and the steps of a polling cycle leave alone
\* the variables of the functions specified on their own
calledVars == <<response, result, gets, calls, queue_line, parsed,
               new_task, assignment, new_tasks_i, reparsed,
               sampled, iteration, percent, last_percent>>

progressVars == <<sampled, iteration, percent, last_percent>>

walkVars == <<walk_pc, walk_B, walk_gain, small, mid, visited>>

\* the variables of the functions specified on their own after
\* compute_progress
signVars == <<program_idx, args, prev_args>>

serverVars == <<stored>>

loopVars == <<options, primenet_login, login, loop_pc, worker, events, loops>>

depthVars == <<cache, initial_size, num_existing, fetch>>

etaVars == <<eta_mode, cur_time_left, sent_e>>

ownVars == <<walkVars, signVars, serverVars, loopVars, depthVars, etaVars>>

auxVars == <<calledVars, ownVars>>

otherVars == <<uploadVars, auxVars>>

----------------------------------------------------------------------------
\* Bounds of the model

\* stand-in for sys.getrecursionlimit(): frames the call stack may hold
RecursionLimit == 3
\* polling cycles explored
MaxCycles == 2
\* lines of the results file
MaxResults == 1
\* options.num_cache (--num-cache), the configured number of assignments to
\* cache on top of the one in progress
num_cache_option == 1
\* largest proof file, in bytes
MaxFileSize == 3
\* stand-in for the 5 MiB (5 * 1024 * 1024 bytes) a chunk may hold
ChunkMax == 2

----------------------------------------------------------------------------
\* class primenet: error codes returned to the client

ERROR_OK == 0
ERROR_SERVER_BUSY == 3
ERROR_INVALID_PARAMETER == 7
ERROR_UNREGISTERED_CPU == 30
ERROR_STALE_CPU_INFO == 32
ERROR_CPU_CONFIGURATION_MISMATCH == 34
ERROR_NO_ASSIGNMENT == 40
ERROR_INVALID_ASSIGNMENT_KEY == 43
ERROR_INVALID_ASSIGNMENT_TYPE == 44
ERROR_INVALID_RESULT_TYPE == 45
ERROR_WORK_NO_LONGER_NEEDED == 47

\* send_request returned None: timeout, HTTP or connection error, or a
\* response without pnErrorResult / pnErrorDetail
NoResponse == -1
\* no answer received yet (history only)
NoRc == -2

Codes == {ERROR_OK, ERROR_SERVER_BUSY, ERROR_INVALID_PARAMETER,
          ERROR_UNREGISTERED_CPU, ERROR_STALE_CPU_INFO,
          ERROR_CPU_CONFIGURATION_MISMATCH, ERROR_NO_ASSIGNMENT,
          ERROR_INVALID_ASSIGNMENT_KEY, ERROR_INVALID_ASSIGNMENT_TYPE,
          ERROR_INVALID_RESULT_TYPE, ERROR_WORK_NO_LONGER_NEEDED}

\* every outcome of one send_request call
Answers == Codes \cup {NoResponse}

OpTypes == {"ga", "ap", "ar", "au"}

----------------------------------------------------------------------------
\* Data

Task(u, v) == [uid |-> u, ok |-> v]
NoTask == [uid |-> -1, ok |-> FALSE]

\* the workfile line get_assignment builds from the server's answer to ga
ServerTasks == {Task(2, TRUE)}

\* worktodo files found at start-up: an empty one, and one with the same
\* assignment on two lines and a line without an id
InitWorkfiles == {<<>>, <<Task(1, TRUE), Task(1, TRUE), Task(0, TRUE)>>}

\* the results file written by the GIMPS program: line i reports assignment i
resultsfile == [i \in 1..MaxResults |-> [line |-> i, aid |-> i]]
NoLine == [line |-> 0, aid |-> 0]

\* return values of the protocol functions
NoRet == [kind |-> "pending", task |-> NoTask]
RetNone == [kind |-> "None", task |-> NoTask]
RetTrue == [kind |-> "True", task |-> NoTask]
RetFalse == [kind |-> "False", task |-> NoTask]
RetTest(t) == [kind |-> "test", task |-> t]

Range(s) == {s[i] : i \in DOMAIN s}
Front(s) == SubSeq(s, 1, Len(s) - 1)
Top(s) == s[Len(s)]

Frame(fn, first, fresh) ==
    [fn |-> fn, retry |-> 0, pc |-> "send", first |-> first, fresh |-> fresh]

----------------------------------------------------------------------------
\* File helpers

\* write_list_file(filename, line, mode): `old` is the content of the file
write_list_file_w(old, line, mode) == line
write_list_file(old, line, mode) ==
    IF mode = "a"
    THEN IF line = <<>> THEN old ELSE old \o line
    ELSE line

\* parse_assignment, at the level of the abstraction: None for a rejected line
parse_assignment(task) == IF task.ok THEN task ELSE NoTask

\* OrderedDict((assignment.uid, assignment) for ... if assignment and
\* assignment.uid).values(): one entry per id, at the position of the first
\* line with that id, with the fields of the last
\* d[assignment.uid] = assignment on the values d of the dictionary: a new
\* key goes to the end, the value of a key already there is replaced
DictSet_first_wins(d, a) ==
    IF \E i \in 1..Len(d) : d[i].uid = a.uid THEN d ELSE Append(d, a)
DictSet(d, a) ==
    IF \E i \in 1..Len(d) : d[i].uid = a.uid
    THEN [i \in 1..Len(d) |-> IF d[i].uid = a.uid THEN a ELSE d[i]]
    ELSE Append(d, a)

RECURSIVE DedupUids(_, _)
DedupUids(tasks, d) ==
    IF tasks = <<>> THEN d
    ELSE LET a == parse_assignment(Head(tasks)) IN
         IF a = NoTask \/ a.uid = 0
         THEN DedupUids(Tail(tasks), d)
         ELSE DedupUids(Tail(tasks), DictSet(d, a))

queued(tasks) == DedupUids(tasks, <<>>)

----------------------------------------------------------------------------
\* Result-code handling of each protocol function.  The outcome names what
\* the function does after send_request returned answer a:
\*   "retry"         retry = True (or fall through to the recursive call)
\*   "register_new"  register_instance(), then retry
\*   "register"      register_instance(guid), then retry
\*   "proceed"       rc == ERROR_OK
\*   "return_none" / "return_true" / "return_false"   the function returns
\*   "exit"          parser.error(...): the process exits

\* get_assignment
get_assignment_rc(a) ==
    IF a = NoResponse THEN "retry"
    ELSE IF a = ERROR_OK THEN "proceed"
    ELSE IF a = ERROR_UNREGISTERED_CPU THEN "register_new"
    ELSE IF a \in {ERROR_STALE_CPU_INFO, ERROR_CPU_CONFIGURATION_MISMATCH}
         THEN "register"
    ELSE "return_none"

\* send_progress
send_progress_rc_reregister(a) ==
    IF a = NoResponse \/ a = ERROR_SERVER_BUSY THEN "retry"
    ELSE IF a \in {ERROR_OK, ERROR_UNREGISTERED_CPU} THEN "register_new"
    ELSE IF a = ERROR_STALE_CPU_INFO THEN "register"
    ELSE "return_none"
send_progress_rc(a) ==
    IF a = NoResponse THEN "retry"
    ELSE IF a = ERROR_OK THEN "return_none"
    ELSE IF a \in {ERROR_INVALID_ASSIGNMENT_KEY, ERROR_WORK_NO_LONGER_NEEDED}
         THEN "return_none"
    ELSE IF a = ERROR_UNREGISTERED_CPU THEN "register_new"
    ELSE IF a = ERROR_STALE_CPU_INFO THEN "register"
    ELSE IF a = ERROR_SERVER_BUSY THEN "retry"
    ELSE "return_none"

\* report_result
report_result_rc(a) ==
    IF a = NoResponse THEN "retry"
    ELSE IF a = ERROR_OK THEN "return_true"
    ELSE IF a = ERROR_UNREGISTERED_CPU THEN "register_new"
    ELSE IF a = ERROR_STALE_CPU_INFO THEN "register"
    ELSE IF a \in {ERROR_INVALID_ASSIGNMENT_KEY, ERROR_WORK_NO_LONGER_NEEDED,
                   ERROR_NO_ASSIGNMENT, ERROR_INVALID_RESULT_TYPE}
         THEN "return_true"
    ELSE IF a = ERROR_INVALID_PARAMETER THEN "return_false"
    ELSE "retry"

\* assignment_unreserve
assignment_unreserve_rc_retry43(a) ==
    IF a = NoResponse \/ a = ERROR_INVALID_ASSIGNMENT_KEY THEN "retry"
    ELSE IF a = ERROR_UNREGISTERED_CPU THEN "register_new"
    ELSE "return_none"
assignment_unreserve_rc(a) ==
    IF a = NoResponse THEN "retry"
    ELSE IF a = ERROR_OK THEN "return_none"
    ELSE IF a = ERROR_INVALID_ASSIGNMENT_KEY THEN "return_none"
    ELSE IF a = ERROR_UNREGISTERED_CPU THEN "register_new"
    ELSE "return_none"

\* program_options
program_options_rc(a) ==
    IF a = NoResponse THEN "exit"
    ELSE IF a = ERROR_OK THEN "proceed"
    ELSE IF a = ERROR_UNREGISTERED_CPU THEN "register_new"
    ELSE IF a = ERROR_STALE_CPU_INFO THEN "register"
    ELSE "exit"

\* register_instance
register_instance_rc(a) ==
    IF a = NoResponse THEN "exit"
    ELSE IF a = ERROR_OK THEN "proceed"
    ELSE "exit"

Outcome(fn, a) ==
    CASE fn = "ga" -> get_assignment_rc(a)
      [] fn = "ap" -> send_progress_rc(a)
      [] fn = "ar" -> report_result_rc(a)
      [] fn = "au" -> assignment_unreserve_rc(a)
      [] fn = "po" -> program_options_rc(a)
      [] fn = "uc" -> register_instance_rc(a)

\* `if retry_count >= 5:` at the head of every retrying function
RetryCountExceeded_off_by_one(retry_count) == retry_count > 5
RetryCountExceeded(retry_count) == retry_count >= 5

\* create_new_guid: a uuid4.  The program only tests whether a guid is set,
\* so the model keeps 0 for None and 1 for any guid.
create_new_guid(guid) == 1

\* a call that would push a frame past the interpreter's recursion limit
\* raises RecursionError, which nothing catches
Overflows(stk) == Len(stk) >= RecursionLimit

\* The stack after a callee returned to the frame on top of stk.
\*  - register_instance after program_options(True) returned: calls
\*    program_options() when options_counter > SrvrP00, else returns;
\*  - register_instance after program_options() returned: returns;
\*  - any retrying function after register_instance returned: retry = True,
\*    i.e. the call of itself with retry_count + 1.
\* od: options_counter > config.getint("PrimeNet", "SrvrP00")
RECURSIVE Unwind(_, _)
Unwind(stk, od) ==
    IF stk = <<>> THEN <<>>
    ELSE LET f == Top(stk) IN
         IF f.fn = "uc"
         THEN IF f.pc = "po_first" /\ od
              THEN Append(Append(Front(stk), [f EXCEPT !.pc = "po_second"]),
                          Frame("po", FALSE, FALSE))
              ELSE Unwind(Front(stk), od)
         ELSE Append(Front(stk), [f EXCEPT !.pc = "send", !.retry = @ + 1])

Alive == pc \notin {"done", "unreserved", "exit", "RecursionError", "dying",
                   "KeyboardInterrupt"}

\* the frame a retrying function leaves on the stack for outcome o
Calling(f, o) == <<[f EXCEPT !.pc = "reg"], Frame("uc", FALSE, o = "register_new")>>

----------------------------------------------------------------------------
\* The protocol functions.  Each action is one execution of the function's
\* body on top of the stack: the retry-count check, one send_request and the
\* handling of its answer.

mainVars == <<results_sent, results_send, sent, assignments, progress,
              num_to_get, tests, got, cycle, nga, workfile>>

\* get_assignment, send_progress, report_result, assignment_unreserve
Operation(fn) ==
    /\ UNCHANGED otherVars
    /\ Alive
    /\ Len(stack) = 1
    /\ stack[1].fn = fn
    /\ stack[1].pc = "send"
    /\ UNCHANGED <<mainVars, config, opFn, sentTo>>
    /\ IF fn \in {"ap", "au"} /\ config.ComputerGUID = 0
       THEN \* "the registration is not done"
            /\ stack' = <<>>
            /\ ret' = RetNone
            /\ UNCHANGED <<pc, nsent, opRc, ucSince, rejected>>
       ELSE IF RetryCountExceeded(stack[1].retry)
       THEN /\ stack' = <<>>
            /\ ret' = IF fn = "ar" THEN RetFalse ELSE RetNone
            /\ UNCHANGED <<pc, nsent, opRc, ucSince, rejected>>
       ELSE \E a \in Answers :
            LET o == Outcome(fn, a) IN
            /\ nsent' = nsent + 1
            /\ opRc' = a
            /\ ucSince' = FALSE
            /\ rejected' = rejected
            /\ CASE o = "retry" ->
                      /\ stack' = <<[stack[1] EXCEPT !.retry = @ + 1]>>
                      /\ UNCHANGED <<pc, ret>>
                 [] o \in {"register", "register_new"} ->
                      IF Overflows(stack)
                      THEN pc' = "RecursionError" /\ stack' = <<>> /\ ret' = ret
                      ELSE /\ stack' = Calling(stack[1], o)
                           /\ UNCHANGED <<pc, ret>>
                 [] o = "proceed" ->
                      \* get_assignment: a bad exponent or an unsupported
                      \* work type returns None, else the workfile line
                      \E t \in ServerTasks \cup {NoTask} :
                          /\ stack' = <<>>
                          /\ ret' = IF t = NoTask THEN RetNone ELSE RetTest(t)
                          /\ pc' = pc
                 [] OTHER ->
                      /\ stack' = <<>>
                      /\ ret' = CASE o = "return_true" -> RetTrue
                                  [] o = "return_false" -> RetFalse
                                  [] OTHER -> RetNone
                      /\ pc' = pc

get_assignment == Operation("ga")
send_progress == Operation("ap")
report_result == Operation("ar")
assignment_unreserve == Operation("au")

\* register_instance: the uc request; on success the guid the server
\* returned is written to local.ini and program_options(True) is called
register_instance ==
    /\ UNCHANGED otherVars
    /\ Alive
    /\ stack # <<>>
    /\ Top(stack).fn = "uc"
    /\ Top(stack).pc = "send"
    /\ UNCHANGED <<mainVars, ret, nsent, opRc, opFn, sentTo, rejected>>
    /\ ucSince' = TRUE
    /\ \E a \in Answers :
       IF register_instance_rc(a) = "exit"
       THEN pc' = "exit" /\ stack' = <<>> /\ config' = config
       ELSE /\ config' = IF Top(stack).fresh
                        THEN [config EXCEPT !.ComputerGUID = create_new_guid(@)]
                        ELSE config
            /\ IF Overflows(stack)
               THEN pc' = "RecursionError" /\ stack' = <<>>
               ELSE /\ pc' = pc
                    /\ stack' = Append(Append(Front(stack),
                                   [Top(stack) EXCEPT !.pc = "po_first"]),
                                   Frame("po", TRUE, FALSE))

\* program_options: the po request
program_options ==
    /\ UNCHANGED otherVars
    /\ Alive
    /\ stack # <<>>
    /\ Top(stack).fn = "po"
    /\ Top(stack).pc = "send"
    /\ UNCHANGED <<mainVars, ret, config, nsent, opRc, ucSince, opFn, sentTo,
                   rejected>>
    /\ IF RetryCountExceeded(Top(stack).retry)
       THEN \E od \in BOOLEAN : pc' = pc /\ stack' = Unwind(Front(stack), od)
       ELSE \E a \in Answers :
            LET o == program_options_rc(a) IN
            CASE o = "exit" -> pc' = "exit" /\ stack' = <<>>
              [] o \in {"register", "register_new"} ->
                   IF Overflows(stack)
                   THEN pc' = "RecursionError" /\ stack' = <<>>
                   ELSE pc' = pc /\ stack' = Front(stack) \o Calling(Top(stack), o)
              [] OTHER ->
                   \* rc == ERROR_OK: an unsupported work preference in the
                   \* answer is a parser.error, else the options are stored
                   \E supported, od \in BOOLEAN :
                       IF supported
                       THEN pc' = pc /\ stack' = Unwind(Front(stack), od)
                       ELSE pc' = "exit" /\ stack' = <<>>

----------------------------------------------------------------------------
\* The main program

histVars == <<nsent, opRc, ucSince, opFn, sentTo, rejected>>

\* a call of one of the four operations from the main program
StartOperation(fn, line) ==
    /\ stack' = <<Frame(fn, FALSE, FALSE)>>
    /\ nsent' = 0
    /\ opRc' = NoRc
    /\ ucSince' = FALSE
    /\ opFn' = fn
    /\ sentTo' = line
    /\ UNCHANGED rejected

\* the main program took the value an operation returned
Returned ==
    /\ ret' = NoRet
    /\ nsent' = 0
    /\ opRc' = NoRc
    /\ ucSince' = FALSE
    /\ opFn' = "none"
    /\ sentTo' = NoLine
    /\ rejected' = IF opFn = "ar" /\ opRc = ERROR_INVALID_PARAMETER
                   THEN rejected \cup {sentTo} ELSE rejected

\* `results_send = [line for line in results if line not in results_sent]`
NotSentBefore_every_line(results, record) == results
NotSentBefore(results, record) ==
    SelectSeq(results, LAMBDA l : l \notin Range(record))

\* submit_work, up to the loop over results_send: the lines of the results
\* file that are not in results_sent.txt; nothing to do when there is none
submit_work ==
    /\ UNCHANGED otherVars
    /\ pc = "submit_work"
    /\ LET new == NotSentBefore(resultsfile, results_sent) IN
       /\ results_send' = new
       /\ sent' = <<>>
       /\ pc' = IF new = <<>> THEN "update_progress_all" ELSE "submit_one_line"
    /\ UNCHANGED <<stack, ret, config, workfile, results_sent, assignments,
                   progress, num_to_get, tests, got, cycle, nga, histVars>>

\* submit_work: `is_sent = submit_one_line(...)`, the call of report_result
submit_one_line ==
    /\ UNCHANGED otherVars
    /\ pc = "submit_one_line"
    /\ stack = <<>>
    /\ ret = NoRet
    /\ results_send # <<>>
    /\ StartOperation("ar", Head(results_send))
    /\ UNCHANGED <<pc, ret, config, workfile, results_sent, results_send, sent,
                   assignments, progress, num_to_get, tests, got, cycle, nga>>

\* submit_work: `if is_sent: sent.append(sendline)` and, after the last
\* line, write_list_file(sentfile, sent, "a")
submit_work_sent ==
    /\ UNCHANGED otherVars
    /\ pc = "submit_one_line"
    /\ stack = <<>>
    /\ ret # NoRet
    /\ LET now == IF ret = RetTrue THEN Append(sent, Head(results_send)) ELSE sent IN
       /\ results_send' = Tail(results_send)
       /\ IF Tail(results_send) = <<>>
          THEN /\ results_sent' = write_list_file(results_sent, now, "a")
               /\ sent' = <<>>
               /\ pc' = "update_progress_all"
          ELSE /\ sent' = now
               /\ UNCHANGED <<results_sent, pc>>
    /\ Returned
    /\ UNCHANGED <<stack, config, workfile, assignments, progress, num_to_get,
                   tests, got, cycle, nga>>

\* update_progress_all, up to the first update_progress: returns None for
\* an empty workfile or one without an assignment that has an id
update_progress_all ==
    /\ UNCHANGED otherVars
    /\ pc = "update_progress_all"
    /\ LET q == queued(workfile) IN
       /\ assignments' = q
       /\ IF q = <<>>
          THEN /\ progress' = "None"
               /\ pc' = IF got = -1 THEN "get_assignments" ELSE "LastEndDatesSent"
          ELSE /\ progress' = progress
               /\ pc' = "update_progress"
    /\ UNCHANGED <<stack, ret, config, workfile, results_sent, results_send, sent,
                   num_to_get, tests, got, cycle, nga, histVars>>

\* update_progress: the call of send_progress for the next assignment
update_progress ==
    /\ UNCHANGED otherVars
    /\ pc = "update_progress"
    /\ stack = <<>>
    /\ ret = NoRet
    /\ assignments # <<>>
    /\ StartOperation("ap", NoLine)
    /\ UNCHANGED <<pc, ret, config, workfile, results_sent, results_send, sent,
                   assignments, progress, num_to_get, tests, got, cycle, nga>>

\* update_progress_all: send_progress returned; after the last assignment
\* the accumulated time left is returned.  Whether it is below DaysOfWork
\* depends on the progress estimate, an input here.
update_progress_done ==
    /\ UNCHANGED otherVars
    /\ pc = "update_progress"
    /\ stack = <<>>
    /\ ret # NoRet
    /\ Returned
    /\ assignments' = Tail(assignments)
    /\ IF Tail(assignments) = <<>>
       THEN IF got = -1
            THEN /\ \E p \in {"short", "long"} : progress' = p
                 /\ pc' = "get_assignments"
            ELSE \* the second call in a cycle: the value is not used
                 /\ progress' = "None"
                 /\ pc' = "LastEndDatesSent"
       ELSE UNCHANGED <<progress, pc>>
    /\ UNCHANGED <<stack, config, workfile, results_sent, results_send, sent,
                   num_to_get, tests, got, cycle, nga>>

\* the MaxExponents default
MaxExponentsDefault == 15

Min(a, b) == IF a < b THEN a ELSE b

\* `num_cache = options.num_cache + 1`, one more with a password, one more
\* when the time left is within DaysOfWork, `num_cache = min(num_cache, amax)`
TargetDepth_uncapped(n, password, short, most) ==
    n + 1 + (IF password THEN 1 ELSE 0) + (IF short THEN 1 ELSE 0)
TargetDepth(n, password, short, most) ==
    Min(n + 1 + (IF password THEN 1 ELSE 0) + (IF short THEN 1 ELSE 0), most)

\* get_assignments: the target cache depth
num_cache(prog) ==
    TargetDepth(num_cache_option, FALSE, prog = "short", MaxExponentsDefault)

\* get_assignments, up to primenet_fetch: nothing is fetched when NoMoreWork
\* is set or when the queue holds the target depth
get_assignments ==
    /\ UNCHANGED otherVars
    /\ pc = "get_assignments"
    /\ LET d == num_cache(progress) - Len(queued(workfile)) IN
       IF config.NoMoreWork \/ d <= 0
       THEN /\ got' = 0
            /\ pc' = "LastEndDatesSent"
            /\ num_to_get' = 0
       ELSE /\ got' = got
            /\ pc' = "primenet_fetch"
            /\ num_to_get' = d
    /\ progress' = "None"
    /\ UNCHANGED <<stack, ret, config, workfile, results_sent, results_send, sent,
                   assignments, tests, nga, cycle, histVars>>

\* primenet_fetch: `for _ in range(num_to_get): test = get_assignment(cpu)`
primenet_fetch ==
    /\ UNCHANGED otherVars
    /\ pc = "primenet_fetch"
    /\ stack = <<>>
    /\ ret = NoRet
    /\ nga < num_to_get
    /\ StartOperation("ga", NoLine)
    /\ nga' = nga + 1
    /\ UNCHANGED <<pc, ret, config, workfile, results_sent, results_send, sent,
                   assignments, progress, num_to_get, tests, got, cycle>>

\* primenet_fetch: `if test is None: break`
FetchStops_never(r) == FALSE
FetchStops(r) == r = RetNone

\* primenet_fetch: get_assignment returned; the loop goes on or ends
primenet_fetch_done ==
    /\ UNCHANGED otherVars
    /\ pc = "primenet_fetch"
    /\ stack = <<>>
    /\ ret # NoRet
    /\ Returned
    /\ LET now == IF ret.kind = "test" THEN Append(tests, ret.task) ELSE tests IN
       /\ tests' = now
       /\ pc' = IF FetchStops(ret) \/ nga >= num_to_get
                THEN "new_tasks" ELSE pc
    /\ UNCHANGED <<stack, config, workfile, results_sent, results_send, sent,
                   assignments, progress, num_to_get, got, cycle, nga>>

\* get_assignments after primenet_fetch returned new_tasks: the lines are
\* appended to the workfile, valid or not, and num_fetched is returned
get_assignments_new_tasks ==
    /\ UNCHANGED otherVars
    /\ pc = "new_tasks"
    /\ workfile' = write_list_file(workfile, tests, "a")
    /\ got' = Len(tests)
    /\ pc' = IF Len(tests) > 0 THEN "update_progress_all" ELSE "LastEndDatesSent"
    /\ tests' = <<>>
    /\ num_to_get' = 0
    /\ nga' = 0
    /\ UNCHANGED <<stack, ret, config, results_sent, results_send, sent,
                   assignments, progress, cycle, histVars>>

\* The proof upload task.  upload_proof announces the file, then posts one
\* chunk at a time; every reply of the server is an input.

\* a reply of the upload server: its kind and, for kind "need", the first
\* interval of the need list
Reply(k, p, e) == [kind |-> k, pos |-> p, end |-> e]
NoReply == [at |-> "none", kind |-> "none"]
NoChunk == [off |-> -1, size |-> 0]

\*   "409"           error_status 409
\*   "error"         another error_status
\*   "raise"         no JSON body, an HTTP error status, an empty need list
\*   "missing"       no URLToUse or no need in the reply
\*   "FileUploaded"  the upload is complete (chunk replies only)
\*   "need"          URLToUse and a need list
AnnounceReplies ==
    {Reply(k, 0, 0) : k \in {"409", "error", "raise", "missing"}}
    \cup {Reply("need", p, e) : p \in 0..MaxFileSize, e \in 0..MaxFileSize}
ChunkReplies == AnnounceReplies \cup {Reply("FileUploaded", 0, 0)}

\* proof files are at least two bytes long
FileSizes == 2..MaxFileSize

\* `if pos > end or end >= fileSize:` need list entry bad
NeedBad(p, e, size) == p > e \/ e >= size

\* upload_proof: what the reply to the announce leads to
upload_proof_announce_rc_409_fails(r, size) ==
    IF r.kind \in {"409", "error", "missing"} THEN "False"
    ELSE IF r.kind = "raise" THEN "raise"
    ELSE IF NeedBad(r.pos, r.end, size) THEN "False"
    ELSE "need"
upload_proof_announce_rc(r, size) ==
    IF r.kind = "409" THEN "True"
    ELSE IF r.kind = "raise" THEN "raise"
    ELSE IF r.kind \in {"error", "missing"} THEN "False"
    ELSE IF NeedBad(r.pos, r.end, size) THEN "False"
    ELSE "need"

\* upload_proof: what the reply to the chunk sent at offset p0 leads to
upload_proof_chunk_rc(r, p0, size) ==
    IF r.kind = "raise" THEN "raise"
    ELSE IF r.kind \in {"409", "error"} THEN "False"
    ELSE IF r.kind = "FileUploaded" THEN "True"
    ELSE IF r.kind = "missing" THEN "False"
    ELSE IF r.pos <= p0 THEN "False"
    ELSE IF NeedBad(r.pos, r.end, size) THEN "False"
    ELSE "need"

\* `size = min(end - pos + 1, 5 * 1024 * 1024)`
DataSize_whole_interval(p, e) == e - p + 1
DataSize(p, e) == Min(e - p + 1, ChunkMax)

\* the locals and the history of upload_proof, outside a call
UploadIdle ==
    /\ fileSize' = 0
    /\ pos' = 0
    /\ end' = 0
    /\ upret' = "None"
    /\ lastChunk' = NoChunk
    /\ upReply' = NoReply

progVars == <<pc, stack, ret, config, workfile, results_sent, results_send, sent,
              assignments, progress, num_to_get, tests, got, cycle,
              nsent, opRc, ucSince, nga, opFn, sentTo, rejected>>

\* aupload_proofs / upload_proofs, up to the first request of upload_proof:
\* nothing to do without a proof file (the GIMPS program may have written
\* one since the last listing); a file without the PRP PROOF header is not
\* uploaded
aupload_proofs ==
    /\ thread = "started"
    /\ \E written, header \in BOOLEAN :
       LET n == IF proofdir = 1 \/ written THEN 1 ELSE 0 IN
       /\ proofdir' = n
       /\ retrying' = (proofdir = 1)
       /\ IF n = 0
          THEN thread' = "finished" /\ UploadIdle
          ELSE IF ~header
          THEN /\ thread' = "returned"
               /\ upret' = "False"
               /\ UNCHANGED <<fileSize, pos, end, lastChunk, upReply>>
          ELSE /\ thread' = "announce"
               /\ \E size \in FileSizes : fileSize' = size
               /\ UNCHANGED <<pos, end, upret, lastChunk, upReply>>
    /\ UNCHANGED <<progVars, auxVars>>

\* upload_proof: the announce (GET proof_upload/) and its reply; with a
\* need interval of one byte the chunk loop is not entered and the file is
\* announced again
upload_proof ==
    /\ thread = "announce"
    /\ \E r \in AnnounceReplies :
       LET o == upload_proof_announce_rc(r, fileSize) IN
       /\ upReply' = IF o = "need" THEN upReply
                     ELSE [at |-> "announce", kind |-> r.kind]
       /\ CASE o = "raise" ->
                 /\ thread' = "raised"
                 /\ UNCHANGED <<pos, end, upret>>
            [] o = "need" ->
                 /\ pos' = r.pos
                 /\ end' = r.end
                 /\ thread' = IF r.pos < r.end THEN "chunk" ELSE "announce"
                 /\ upret' = upret
            [] OTHER ->
                 /\ thread' = "returned"
                 /\ upret' = o
                 /\ UNCHANGED <<pos, end>>
    /\ UNCHANGED <<proofdir, retrying, fileSize, lastChunk>>
    /\ UNCHANGED <<progVars, auxVars>>

\* upload_proof: one chunk (POST) and its reply
upload_proof_chunk ==
    /\ thread = "chunk"
    /\ lastChunk' = [off |-> pos, size |-> DataSize(pos, end)]
    /\ \E r \in ChunkReplies :
       LET o == upload_proof_chunk_rc(r, pos, fileSize) IN
       /\ upReply' = IF o = "need" THEN upReply
                     ELSE [at |-> "chunk", kind |-> r.kind]
       /\ CASE o = "raise" ->
                 /\ thread' = "raised"
                 /\ UNCHANGED <<pos, end, upret>>
            [] o = "need" ->
                 /\ pos' = r.pos
                 /\ end' = r.end
                 /\ thread' = IF r.pos < r.end THEN "chunk" ELSE "announce"
                 /\ upret' = upret
            [] OTHER ->
                 /\ thread' = "returned"
                 /\ upret' = o
                 /\ UNCHANGED <<pos, end>>
    /\ UNCHANGED <<proofdir, retrying, fileSize>>
    /\ UNCHANGED <<progVars, auxVars>>

\* upload_proofs: `if upload_proof(filename):` the file is moved or removed
Removes_always(r) == TRUE
Removes(r) == r = "True"

\* upload_proofs: upload_proof returned; the task ends after the last file
upload_proofs ==
    /\ thread = "returned"
    /\ proofdir' = IF Removes(upret) THEN 0 ELSE proofdir
    /\ thread' = "finished"
    /\ retrying' = FALSE
    /\ UploadIdle
    /\ UNCHANGED <<progVars, auxVars>>

\* an exception of upload_proof is not caught: it ends the task, the file
\* stays in place
upload_proofs_raised ==
    /\ thread = "raised"
    /\ thread' = "finished"
    /\ retrying' = FALSE
    /\ proofdir' = proofdir
    /\ UploadIdle
    /\ UNCHANGED <<progVars, auxVars>>

----------------------------------------------------------------------------
\* The end of a polling cycle (options.timeout > 0)

\* the steps of a polling cycle
InCycle == pc \in {"submit_work", "submit_one_line", "update_progress_all",
                   "update_progress", "get_assignments", "primenet_fetch",
                   "new_tasks", "LastEndDatesSent"}

\* main loop: LastEndDatesSent is written, the upload task is started and
\* the main thread goes to sleep
main_loop ==
    /\ pc = "LastEndDatesSent"
    /\ cycle' = cycle + 1
    /\ got' = -1
    /\ thread' = "started"
    /\ pc' = "sleep"
    /\ UNCHANGED <<stack, ret, config, workfile, results_sent, results_send, sent,
                   assignments, progress, num_to_get, tests, nga, histVars>>
    /\ UNCHANGED <<proofdir, retrying, fileSize, pos, end, upret, lastChunk,
                   upReply, auxVars>>

\* time.sleep(options.timeout) returned
sleep ==
    /\ pc = "sleep"
    /\ cycle < MaxCycles
    /\ pc' = "join"
    /\ UNCHANGED <<stack, ret, config, workfile, results_sent, results_send, sent,
                   assignments, progress, num_to_get, tests, got, cycle, nga,
                   histVars, uploadVars, auxVars>>

\* thread.join(): returns once the task has ended
Joined_nowait(t) == TRUE
Joined(t) == t = "finished"

\* thread.join() returned: the next polling cycle starts
thread_join ==
    /\ pc = "join"
    /\ Joined(thread)
    /\ pc' = "submit_work"
    /\ UNCHANGED <<stack, ret, config, workfile, results_sent, results_send, sent,
                   assignments, progress, num_to_get, tests, got, cycle, nga,
                   histVars, uploadVars, auxVars>>

\* SIGINT: in the sleep it is caught (`except KeyboardInterrupt: break`, then
\* sys.exit(0)); anywhere else no handler is in place and the exception ends
\* the main thread where it is; the places modelled are those between the
\* calls of a polling cycle.
KeyboardInterrupt ==
    /\ \/ pc = "sleep" /\ pc' = "exiting"
       \/ InCycle /\ stack = <<>> /\ ret = NoRet /\ pc' = "dying"
    /\ UNCHANGED <<stack, ret, config, workfile, results_sent, results_send, sent,
                   assignments, progress, num_to_get, tests, got, cycle, nga,
                   histVars, uploadVars, auxVars>>

\* the interpreter ends: it waits for the upload task, which is not a daemon
\* thread, and the process exits (status 0 after sys.exit(0))
sys_exit ==
    /\ pc \in {"exiting", "dying"}
    /\ thread \in {"none", "finished"}
    /\ pc' = IF pc = "exiting" THEN "done" ELSE "KeyboardInterrupt"
    /\ UNCHANGED <<stack, ret, config, workfile, results_sent, results_send, sent,
                   assignments, progress, num_to_get, tests, got, cycle, nga,
                   histVars, uploadVars, auxVars>>

\* unreserve_all, up to the loop over the assignments
unreserve_all ==
    /\ UNCHANGED otherVars
    /\ pc = "unreserve_all"
    /\ assignments' = queued(workfile)
    /\ pc' = IF queued(workfile) = <<>> THEN "unreserved" ELSE "unreserve"
    /\ UNCHANGED <<stack, ret, config, workfile, results_sent, results_send, sent,
                   progress, num_to_get, tests, got, cycle, nga, histVars>>

\* unreserve_all: the call of assignment_unreserve for the next assignment
unreserve_next ==
    /\ UNCHANGED otherVars
    /\ pc = "unreserve"
    /\ stack = <<>>
    /\ ret = NoRet
    /\ assignments # <<>>
    /\ StartOperation("au", NoLine)
    /\ UNCHANGED <<pc, ret, config, workfile, results_sent, results_send, sent,
                   assignments, progress, num_to_get, tests, got, cycle, nga>>

\* unreserve_all: assignment_unreserve returned
unreserve_done ==
    /\ UNCHANGED otherVars
    /\ pc = "unreserve"
    /\ stack = <<>>
    /\ ret # NoRet
    /\ Returned
    /\ assignments' = Tail(assignments)
    /\ pc' = IF Tail(assignments) = <<>> THEN "unreserved" ELSE pc
    /\ UNCHANGED <<stack, config, workfile, results_sent, results_send, sent,
                   progress, num_to_get, tests, got, cycle, nga>>

\* the program is run with --unreserve-all once more, on the files the
\* previous run left
unreserve_all_again ==
    /\ UNCHANGED otherVars
    /\ pc = "unreserved"
    /\ cycle + 1 < MaxCycles
    /\ cycle' = cycle + 1
    /\ pc' = "unreserve_all"
    /\ UNCHANGED <<stack, ret, config, workfile, results_sent, results_send, sent,
                   assignments, progress, num_to_get, tests, got, nga, histVars>>

----------------------------------------------------------------------------
\* The state when the main program reaches `while True:` (registered, v5
\* mode) or the --unreserve-all branch (registered or not)

----------------------------------------------------------------------------
\* send_request: one v5 request and what the caller gets back

\* stand-in for the number of send_request calls that are followed
MaxCalls == 2

\* what the server and the network do with one request: `transport` is the
\* exception s.get / raise_for_status raise ("ok": none), the other fields
\* describe the body parse_v5_resp splits into options: whether it has a
\* pnErrorResult line and a pnErrorDetail line, whether int() accepts the
\* pnErrorResult value, and the number it is read as
Responses == [transport : {"ok", "Timeout", "HTTPError", "ConnectionError"},
              hasResult : BOOLEAN, hasDetail : BOOLEAN, numeric : BOOLEAN,
              rc : Codes]

NoCall == [kind |-> "pending", rc |-> NoRc]

NoResponseYet == [transport |-> "none", hasResult |-> FALSE,
                  hasDetail |-> FALSE, numeric |-> FALSE, rc |-> NoRc]

\* requests put on the wire by one call: the single s.get of the function
s_get_again_on_failure(r) == IF r.transport = "ok" THEN 1 ELSE 2
s_get(r) == 1

\* send_request: None after a caught exception or a body without
\* pnErrorResult or pnErrorDetail; int() raises ValueError, which no handler
\* of the function catches, for a pnErrorResult that is not a number;
\* otherwise the parsed map, with its result code
send_request_result(r) ==
    IF r.transport # "ok" THEN [kind |-> "None", rc |-> NoRc]
    ELSE IF ~r.hasResult THEN [kind |-> "None", rc |-> NoRc]
    ELSE IF ~r.hasDetail THEN [kind |-> "None", rc |-> NoRc]
    ELSE IF ~r.numeric THEN [kind |-> "ValueError", rc |-> NoRc]
    ELSE [kind |-> "result", rc |-> r.rc]

\* one call of send_request; an exception leaving the function ends the
\* program
send_request ==
    /\ calls < MaxCalls
    /\ result.kind # "ValueError"
    /\ \E r \in Responses :
       /\ response' = r
       /\ gets' = gets + s_get(r)
       /\ result' = send_request_result(r)
    /\ calls' = calls + 1
    /\ UNCHANGED <<progVars, uploadVars, queue_line, parsed,
                   new_task, assignment, new_tasks_i, reparsed,
                   progressVars, ownVars>>

----------------------------------------------------------------------------
\* parse_assignment: one line of a work file

\* stand-in for the length of a line: fields after the assignment id
MaxLineFields == 10

Tags == {"Test", "DoubleCheck", "PRP", "PRPDC", "PFactor", "PMinus1", "Cert"}

\* a line `tag=id,field,...`: id is a 32 digit hexadecimal id ("uid"), one
\* of the placeholders N/A and 0, or absent; the fields are integers but for
\* field `odd` (0: none), which is a decimal number or a quoted list of
\* factors; prime and B1low describe the exponent and the B1 bound written
\* in the line (of the form k = 1, b = 2, c = -1)
Lines == {l \in [tag : Tags \cup {"other"}, id : {"uid", "N/A", "0", "none"},
                 nfields : 0..MaxLineFields, odd : 0..MaxLineFields,
                 oddKind : {"dec", "quoted"},
                 prime : BOOLEAN, B1low : BOOLEAN] :
            /\ l.odd <= l.nfields
            /\ l.odd = 0 => l.oddKind = "dec"}

NoLineRead == [tag |-> "none", id |-> "none", nfields |-> 0, odd |-> 0,
               oddKind |-> "dec", prime |-> FALSE, B1low |-> FALSE]

\* workpattern.search(task): a known tag, an optional id or placeholder and
\* 3 to 9 numeric or quoted fields; a placeholder 0 also matches as a field
workpattern(l) ==
    /\ l.tag \in Tags
    /\ IF l.id = "0" THEN l.nfields + 1 \in 3..9 \/ l.nfields \in 3..9
       ELSE l.nfields \in 3..9

\* found, after `if not assignment_uid: found.insert(0, "")`: the fields
\* csv.reader splits off the text behind the = sign, with an empty string
\* in front when group 2 of the pattern is empty, which it is for a
\* placeholder as well as for an absent id
found(l) ==
    (IF l.id = "uid" THEN <<"uid">>
     ELSE IF l.id = "N/A" THEN <<"empty", "text">>
     ELSE IF l.id = "0" THEN <<"empty", "zero">>
     ELSE <<"empty">>)
    \o [i \in 1..l.nfields |-> IF i = l.odd THEN l.oddKind ELSE "int"]

\* int(x) and float(x) return
Converts(f, x) == IF f = "int" THEN x \in {"int", "zero"}
                  ELSE x \in {"int", "zero", "dec"}

Conv(i, f) == [i |-> i, f |-> f]

kbnc == <<Conv(1, "float"), Conv(2, "int"), Conv(3, "int"), Conv(4, "int")>>

\* the subscripts found[i] parse_assignment converts for a work type and a
\* length of found, in the order of the code
Conversions(tag, length) ==
    IF tag \in {"Test", "DoubleCheck"}
    THEN <<Conv(1, "int"), Conv(2, "float"), Conv(3, "int")>>
    ELSE IF tag \in {"PRP", "PRPDC"}
    THEN kbnc
         \o (IF length >= 7 THEN <<Conv(5, "float"), Conv(6, "float")>>
             ELSE <<>>)
         \o (IF length >= 9 THEN <<Conv(7, "int"), Conv(8, "int")>>
             ELSE <<>>)
    ELSE IF tag = "PFactor"
    THEN kbnc \o <<Conv(5, "float"), Conv(6, "float")>>
    ELSE IF tag = "PMinus1"
    THEN kbnc \o <<Conv(5, "int"), Conv(6, "int")>>
         \o (IF length >= 8 THEN <<Conv(7, "float")>> ELSE <<>>)
    ELSE kbnc

\* the test in front of the conversions: `if length <= idx: return None`
TooShort(tag, length) ==
    length <= (IF tag \in {"Test", "DoubleCheck"} THEN 1 ELSE 3)

\* parse_assignment: "Assignment", "None", or the exception it raises:
\* IndexError for a subscript beyond the end of found, ValueError for a
\* field int() or float() does not accept.  With the empty string in front
\* of a placeholder every field is read one place late: the exponent of a
\* Test line is then the 0 of the placeholder (not a prime), k of the other
\* lines is 0 (no Mersenne number, the exponent is not looked at) and B1 is
\* the -1 of c
parse_assignment_of(l) ==
    IF ~workpattern(l) THEN "None"
    ELSE LET fnd == found(l)
             length == Len(fnd)
             convs == Conversions(l.tag, length)
             bad == {j \in 1..Len(convs) :
                       \/ convs[j].i >= length
                       \/ ~Converts(convs[j].f, fnd[convs[j].i + 1])}
             first == CHOOSE j \in bad : \A k \in bad : j <= k
             late == l.id = "0"
         IN IF TooShort(l.tag, length) THEN "None"
            ELSE IF bad # {}
            THEN IF convs[first].i >= length THEN "IndexError"
                 ELSE "ValueError"
            ELSE IF l.tag \in {"Test", "DoubleCheck"} /\ (late \/ ~l.prime)
            THEN "None"
            ELSE IF l.tag # "PMinus1" /\ ~late /\ ~l.prime THEN "None"
            ELSE IF l.tag = "PMinus1" /\ (late \/ l.B1low) THEN "None"
            ELSE "Assignment"

\* the call of parse_assignment for one line of a work file
parse_assignment_call ==
    /\ parsed = "pending"
    /\ \E l \in Lines :
       /\ queue_line' = l
       /\ parsed' = parse_assignment_of(l)
    /\ UNCHANGED <<progVars, uploadVars, response, result, gets, calls,
                   new_task, assignment, new_tasks_i, reparsed,
                   progressVars, ownVars>>

----------------------------------------------------------------------------
\* parse_assignment: the values of the fields of a well-formed line

WORK_TYPE_PMINUS1 == 3
WORK_TYPE_PFACTOR == 4
WORK_TYPE_FIRST_LL == 100
WORK_TYPE_DBLCHK == 101
WORK_TYPE_PRP == 150
WORK_TYPE_CERT == 200

\* largest exponent of the range the lines are drawn from
MaxExponent == 1400

\* int(math.sqrt(n))
isqrt(n) == CHOOSE r \in 0..n : r * r <= n /\ (r + 1) * (r + 1) > n

\* is_prime: the small primes, then trial division by p + i for p in
\* range(7, isqrt(n) + 1, 30)
is_prime_small_only(n) ==
    IF n < 2 THEN FALSE
    ELSE IF n \in {2, 3, 5} THEN TRUE
    ELSE ~ \E p \in {2, 3, 5} : n % p = 0
is_prime(n) ==
    IF n < 2 THEN FALSE
    ELSE IF n \in {2, 3, 5} THEN TRUE
    ELSE IF \E p \in {2, 3, 5} : n % p = 0 THEN FALSE
    ELSE ~ \E p \in {q \in 7..isqrt(n) : (q - 7) % 30 = 0},
             i \in {0, 4, 6, 10, 12, 16, 22, 24} : n % (p + i) = 0

\* a line with a 32 digit id and as many numeric fields as its tag needs:
\* f holds the fields behind the id, as the numbers int() and float() read
ValueLine(tag, uid, f) == [tag |-> tag, uid |-> uid, f |-> f]

NoValueLine == ValueLine("none", 0, <<>>)

\* the values parse_assignment starts from; 0 stands for the None of
\* known_factors
Defaults == [work_type |-> 0, uid |-> 0, k |-> 1, b |-> 2, n |-> 0, c |-> -1,
             sieve_depth |-> 99, pminus1ed |-> 1, B1 |-> 0, B2 |-> 0,
             tests_saved |-> 0, prp_base |-> 0, prp_residue_type |-> 0,
             known_factors |-> 0, prp_dblchk |-> FALSE]

NoneAssignment == [kind |-> "None", a |-> Defaults]
PendingAssignment == [kind |-> "pending", a |-> Defaults]

\* k, b, n, c = found[1..4]
ReadKbnc(a, f) == [a EXCEPT !.k = f[1], !.b = f[2], !.n = f[3], !.c = f[4]]

\* the fields parse_assignment reads for each work type; found[i] of the
\* code is f[i] here and length is Len(f) + 1
ReadFields(l) ==
    LET f == l.f
        length == Len(f) + 1
        a0 == [Defaults EXCEPT !.uid = l.uid] IN
    IF l.tag \in {"Test", "DoubleCheck"}
    THEN [a0 EXCEPT !.work_type = IF l.tag = "Test" THEN WORK_TYPE_FIRST_LL
                                  ELSE WORK_TYPE_DBLCHK,
                    !.n = f[1], !.sieve_depth = f[2], !.pminus1ed = f[3]]
    ELSE IF l.tag \in {"PRP", "PRPDC"}
    THEN LET a1 == [ReadKbnc(a0, f) EXCEPT !.work_type = WORK_TYPE_PRP,
                                           !.prp_dblchk = (l.tag = "PRPDC")]
             a2 == IF length >= 7
                   THEN [a1 EXCEPT !.sieve_depth = f[5], !.tests_saved = f[6]]
                   ELSE a1
             a3 == IF length >= 9
                   THEN [a2 EXCEPT !.prp_base = f[7],
                                   !.prp_residue_type = f[8]]
                   ELSE a2
             idx == IF length >= 9 THEN 9 ELSE IF length >= 7 THEN 7 ELSE 5
         IN IF length > idx THEN [a3 EXCEPT !.known_factors = f[idx]] ELSE a3
    ELSE IF l.tag = "PFactor"
    THEN [ReadKbnc(a0, f) EXCEPT !.work_type = WORK_TYPE_PFACTOR,
                                 !.sieve_depth = f[5], !.tests_saved = f[6]]
    ELSE IF l.tag = "PMinus1"
    THEN LET a1 == [ReadKbnc(a0, f) EXCEPT !.work_type = WORK_TYPE_PMINUS1,
                                           !.B1 = f[5], !.B2 = f[6]]
             a2 == IF length >= 8 THEN [a1 EXCEPT !.sieve_depth = f[7]]
                   ELSE a1
         IN IF length >= 10 THEN [a2 EXCEPT !.known_factors = f[9]] ELSE a2
    ELSE [ReadKbnc(a0, f) EXCEPT !.work_type = WORK_TYPE_CERT]

\* `k == 1.0 and b == 2 and not is_prime(n) and c == -1 and work_type !=
\* WORK_TYPE_PMINUS1`
CompositeExponent(a) ==
    /\ a.k = 1
    /\ a.b = 2
    /\ ~is_prime(a.n)
    /\ a.c = -1
    /\ a.work_type # WORK_TYPE_PMINUS1

\* `work_type == WORK_TYPE_PMINUS1 and B1 < 50000`
B1TooSmall_mersenne_only(a) ==
    a.work_type = WORK_TYPE_PMINUS1 /\ a.k = 1 /\ a.b = 2 /\ a.B1 < 50000
B1TooSmall(a) == a.work_type = WORK_TYPE_PMINUS1 /\ a.B1 < 50000

\* parse_assignment on a well-formed line: the two validations, then the
\* Assignment
parse_assignment_values(l) ==
    LET a == ReadFields(l) IN
    IF CompositeExponent(a) THEN NoneAssignment
    ELSE IF B1TooSmall(a) THEN NoneAssignment
    ELSE [kind |-> "Assignment", a |-> a]

\* a 32 digit assignment id
SomeUid == 1

\* the forms k*b^n+c of the lines: the Mersenne form and one change in each
\* of k, b and c
Forms == {<<1, 2, -1>>, <<2, 2, -1>>, <<1, 3, -1>>, <<1, 2, 1>>, <<2, 3, -1>>}

Exponents == 0..MaxExponent \cup {9941}

\* the lines parse_assignment is given: Test and DoubleCheck lines
\* `n,sieve_depth,pminus1ed`, PRP, PFactor and Cert lines of every form and
\* exponent, PMinus1 lines of every form with bounds B1, B2 around 50000
ValueLines ==
    {ValueLine(t, SomeUid, <<n, 74, 1>>) :
        t \in {"Test", "DoubleCheck"}, n \in Exponents}
    \cup {ValueLine("PRP", SomeUid, <<kbc[1], kbc[2], n, kbc[3]>>) :
            kbc \in Forms, n \in Exponents}
    \cup {ValueLine("PFactor", SomeUid, <<kbc[1], kbc[2], n, kbc[3], 74, 2>>) :
            kbc \in Forms, n \in Exponents}
    \cup {ValueLine("Cert", SomeUid, <<kbc[1], kbc[2], n, kbc[3], 100>>) :
            kbc \in Forms, n \in Exponents}
    \cup {ValueLine("PMinus1", SomeUid,
                    <<kbc[1], kbc[2], n, kbc[3], B1, B2>>) :
            kbc \in Forms, n \in {100, 9941},
            B1 \in {0, 1000, 49999, 50000, 60000},
            B2 \in {0, 2000, 50000, 60000, 70000}}

\* the call of parse_assignment for one well-formed line
parse_assignment_validate ==
    /\ assignment = PendingAssignment
    /\ \E l \in ValueLines :
       /\ new_task' = l
       /\ assignment' = parse_assignment_values(l)
    /\ UNCHANGED <<progVars, uploadVars, response, result, gets, calls,
                   queue_line, parsed, new_tasks_i, reparsed,
                   progressVars, ownVars>>

----------------------------------------------------------------------------
\* get_assignments: the fetched lines it rewrites

\* options.tests_saved is None
NoTestsSaved == -1

\* what the loop over new_tasks depends on besides the line: whether
\* int(options.WorkPreference) is in option_dict (first time LL work was
\* asked for), options.tests_saved, whether options.pm1_multiplier is set
\* and, when the existing P-1 bounds are looked up, whether they are found
\* too small
RewriteOptions == [ll : BOOLEAN, tests_saved : {NoTestsSaved, 0, 2},
                   pm1_multiplier : BOOLEAN, bounds_small : BOOLEAN]

\* PRP assigned where first time LL work was asked for becomes an LL test
PrpToLL(a, o) ==
    IF a.work_type = WORK_TYPE_PRP /\ ~a.prp_dblchk /\ o.ll
    THEN [a EXCEPT !.work_type = WORK_TYPE_FIRST_LL,
                   !.pminus1ed = IF a.tests_saved = 0 THEN 1 ELSE 0]
    ELSE a

\* the P-1 bounds are looked up only under this condition; redo is True
\* without the lookup
LooksUpBounds(a, o) ==
    /\ o.tests_saved # 0
    /\ o.pm1_multiplier
    /\ \/ /\ a.work_type \in {WORK_TYPE_FIRST_LL, WORK_TYPE_DBLCHK}
          /\ a.pminus1ed # 0
       \/ a.work_type = WORK_TYPE_PRP /\ a.tests_saved = 0

\* --force-pminus1: pminus1ed of an LL test, tests_saved of a PRP test
ForcePminus1(a, o) ==
    IF /\ o.tests_saved # NoTestsSaved
       /\ a.work_type \in {WORK_TYPE_FIRST_LL, WORK_TYPE_DBLCHK, WORK_TYPE_PRP}
       /\ (LooksUpBounds(a, o) => o.bounds_small)
    THEN IF a.work_type = WORK_TYPE_PRP
         THEN [a EXCEPT !.tests_saved = o.tests_saved]
         ELSE [a EXCEPT !.pminus1ed = IF o.tests_saved = 0 THEN 1 ELSE 0]
    ELSE a

\* `changed`: one of the two replacements was made
Changed(a, o) ==
    \/ a.work_type = WORK_TYPE_PRP /\ ~a.prp_dblchk /\ o.ll
    \/ /\ o.tests_saved # NoTestsSaved
       /\ PrpToLL(a, o).work_type
              \in {WORK_TYPE_FIRST_LL, WORK_TYPE_DBLCHK, WORK_TYPE_PRP}
       /\ (LooksUpBounds(PrpToLL(a, o), o) => o.bounds_small)

\* the fields written for a PRP assignment
PrpFields(a) ==
    <<a.k, a.b, a.n, a.c>>
    \o (IF \/ a.sieve_depth # 99
           \/ a.tests_saved > 0
           \/ a.prp_base # 0
           \/ a.prp_residue_type # 0
        THEN <<a.sieve_depth, a.tests_saved>>
             \o (IF a.prp_base # 0 \/ a.prp_residue_type # 0
                 THEN <<a.prp_base, a.prp_residue_type>> ELSE <<>>)
        ELSE <<>>)
    \o (IF a.known_factors # 0 THEN <<a.known_factors>> ELSE <<>>)

\* new_tasks[i] = test + "=" + the csv row of temp.  The numbers of the
\* model are whole and of at most six digits, which "{0:g}" and "{0:.0f}"
\* write in full
WriteTask(a) ==
    IF a.work_type \in {WORK_TYPE_FIRST_LL, WORK_TYPE_DBLCHK}
    THEN ValueLine(IF a.work_type = WORK_TYPE_FIRST_LL THEN "Test"
                   ELSE "DoubleCheck",
                   a.uid, <<a.n, a.sieve_depth, a.pminus1ed>>)
    ELSE ValueLine(IF a.prp_dblchk THEN "PRPDC" ELSE "PRP", a.uid,
                   PrpFields(a))

\* the optional fields of a PRP line: sieve depth and tests saved, PRP base
\* and residue type, known factors (7 stands for a quoted list of factors)
PrpOptional ==
    {s \o kf : s \in {<<>>} \cup {<<sf, saved>> : sf \in {74, 99},
                                                   saved \in {0, 2}}
                       \cup {<<sf, saved, 3, 1>> : sf \in {74, 99},
                                                   saved \in {0, 2}},
               kf \in {<<>>, <<7>>}}

\* valid lines get_assignment can build from an answer of the server
FetchedLines ==
    {ValueLine(t, SomeUid, <<9941, sf, p1>>) :
        t \in {"Test", "DoubleCheck"}, sf \in {74, 99}, p1 \in {0, 1}}
    \cup {ValueLine(t, SomeUid, <<kbc[1], kbc[2], 9941, kbc[3]>> \o opt) :
            t \in {"PRP", "PRPDC"}, kbc \in {<<1, 2, -1>>, <<3, 2, 1>>},
            opt \in PrpOptional}

\* one round of the loop over new_tasks for a line that parses: the
\* assignment is rewritten and, if it changed, written back to new_tasks[i];
\* `reparsed` is what parse_assignment makes of the line written
get_assignments_rewrite ==
    /\ assignment = PendingAssignment
    /\ \E l \in FetchedLines, o \in RewriteOptions :
       LET parsed0 == parse_assignment_values(l)
           a == ForcePminus1(PrpToLL(parsed0.a, o), o) IN
       /\ parsed0.kind = "Assignment"
       /\ new_task' = l
       /\ assignment' = [kind |-> "Assignment", a |-> a]
       /\ IF Changed(parsed0.a, o)
          THEN /\ new_tasks_i' = WriteTask(a)
               /\ reparsed' = parse_assignment_values(WriteTask(a))
          ELSE UNCHANGED <<new_tasks_i, reparsed>>
    /\ UNCHANGED <<progVars, uploadVars, response, result, gets, calls,
                   queue_line, parsed, progressVars, ownVars>>

----------------------------------------------------------------------------
\* compute_progress: the percentage sent in a progress update

\* largest iteration a log file reports
MaxIteration == 8

\* a P-1 stage 1 bit count and a stage 2 unit count
SomeBits == 4
SomeS2 == 6

\* the assignments whose progress is followed: every work type, small
\* prime exponents
ProgressAssignments ==
    [work_type : {WORK_TYPE_FIRST_LL, WORK_TYPE_DBLCHK, WORK_TYPE_PRP,
                  WORK_TYPE_CERT, WORK_TYPE_PFACTOR, WORK_TYPE_PMINUS1},
     n : {3, 5, 7}]

\* the stage units get_progress_assignment returns with the iteration: none,
\* the bits of stage 1 or the units of stage 2
StageUnits == {[bits |-> 0, s2 |-> 0], [bits |-> SomeBits, s2 |-> 0],
               [bits |-> 0, s2 |-> SomeS2]}

\* the iterations the scrapers return: the number read from the log; in
\* stage 1 it is at most the number of bits (iteration = min(iteration,
\* bits) for GpuOwl, bits = int(iteration / (percent / 100)) for Mlucas)
Scraped(it, u) == it \in 0..MaxIteration /\ (u.bits # 0 => it <= u.bits)

\* the divisor of percent
Denominator(a, bits, s2) ==
    IF s2 # 0 THEN s2
    ELSE IF bits # 0 THEN bits
    ELSE IF a.work_type = WORK_TYPE_PRP THEN a.n
    ELSE a.n - 2

\* a quotient of two integers, kept as the pair
Quotient(x, y) == [num |-> x, den |-> y]

NoPercent == Quotient(0, 0)

\* compute_progress: percent (true division, `from __future__ import
\* division`)
compute_progress_remaining(a, it, bits, s2) ==
    Quotient(Denominator(a, bits, s2) - it, Denominator(a, bits, s2))
compute_progress(a, it, bits, s2) == Quotient(it, Denominator(a, bits, s2))

\* update_progress for the assignment followed, once per polling cycle: the
\* log has moved on to an iteration not below the last one
update_progress_percent ==
    /\ \E it \in 0..MaxIteration :
       /\ Scraped(it, sampled.units)
       /\ it >= iteration
       /\ iteration' = it
       /\ percent' = compute_progress(sampled.a, it, sampled.units.bits,
                                      sampled.units.s2)
    /\ last_percent' = percent
    /\ UNCHANGED sampled
    /\ UNCHANGED <<progVars, uploadVars, response, result, gets, calls,
                   queue_line, parsed, new_task, assignment, new_tasks_i,
                   reparsed, ownVars>>

----------------------------------------------------------------------------
\* walk: the search for the P-1 bounds

\* the number of iterations of the loop of walk that are followed
MaxWalkSteps == 3

\* niceStep: steps of approx 10%
niceStep == (10..19) \cup {20 + 2 * i : i \in 0..9}
            \cup {40 + 5 * i : i \in 0..7} \cup {80, 90}

\* nextNiceNumber: value is divided by 10 while it is at least niceStep[-1],
\* then the first nice step above it is scaled back
RECURSIVE nextNiceNumber(_)
nextNiceNumber(value) ==
    IF value >= 90 THEN 10 * nextNiceNumber(value \div 10)
    ELSE CHOOSE n \in niceStep :
            n > value /\ \A m \in niceStep : m > value => n <= m

NoPoint == [B1 |-> 0, B2 |-> 0]

\* int(B1mult * exponent) and int(B1 * B2mult): the second is negative for
\* exponents below 2^19.5
StartB1 == {17, 89}
StartB2 == {-3, 96}

\* values gain returns: (benefit, work)
Gains == [p : {0, 2}, w : {1, 2, 5}]

\* (p1 - p) / (w1 - w) < num / den, for w1 # w and den > 0
RatioBelow(dp, dw, num, den) ==
    IF dw > 0 THEN dp * den < num * dw ELSE dp * den > num * dw

\* r1 > r2 for r1 = dp1 / dw1 and r2 = dp2 / dw2
RatioAbove(dp1, dw1, dp2, dw2) ==
    IF dw1 * dw2 > 0 THEN dp1 * dw2 > dp2 * dw1 ELSE dp1 * dw2 < dp2 * dw1

\* `if r1 < 1 and r2 < 1 and not smallB1: smallB1 = B1; smallB2 = B2`, and
\* the same for midB1
Checkpoint_every_time(recorded, below, B) == IF below THEN B ELSE recorded
Checkpoint(recorded, below, B) ==
    IF below /\ recorded.B1 = 0 THEN B ELSE recorded

\* one iteration of `while True`, with the statements after the loop when
\* the iteration breaks; a division by w1 - w = 0 or w2 - w = 0 raises
walk_iteration ==
    /\ walk_pc = "loop"
    /\ Len(visited) < MaxWalkSteps
    /\ \E g1 \in Gains, g2 \in Gains :
       LET stepB1 == nextNiceNumber(walk_B.B1) - walk_B.B1
           stepB2 == nextNiceNumber(walk_B.B2) - walk_B.B2
           p == walk_gain.p
           w == walk_gain.w
       IN
       IF g1.w = w \/ g2.w = w
       THEN /\ walk_pc' = "ZeroDivisionError"
            /\ UNCHANGED <<walk_B, walk_gain, small, mid, visited>>
       ELSE LET below1 == /\ RatioBelow(g1.p - p, g1.w - w, 1, 1)
                          /\ RatioBelow(g2.p - p, g2.w - w, 1, 1)
                below05 == /\ RatioBelow(g1.p - p, g1.w - w, 1, 2)
                           /\ RatioBelow(g2.p - p, g2.w - w, 1, 2)
                smallB == Checkpoint(small, below1, walk_B)
                midB == Checkpoint(mid, below05, walk_B)
            IN
            /\ visited' = Append(visited, [B |-> walk_B, below1 |-> below1,
                                           below05 |-> below05])
            /\ IF below1 /\ g1.p <= g1.w /\ g2.p <= g2.w
               THEN /\ walk_pc' = "returned"
                    /\ small' = IF smallB.B1 # 0 THEN smallB
                                ELSE IF midB.B1 # 0 THEN midB ELSE walk_B
                    /\ mid' = IF midB.B1 # 0 THEN midB ELSE walk_B
                    /\ UNCHANGED <<walk_B, walk_gain>>
               ELSE /\ walk_pc' = "loop"
                    /\ small' = smallB
                    /\ mid' = midB
                    /\ IF RatioAbove(g1.p - p, g1.w - w, g2.p - p, g2.w - w)
                       THEN /\ walk_B' = [walk_B EXCEPT !.B1 = @ + stepB1]
                            /\ walk_gain' = g1
                       ELSE /\ walk_B' = [walk_B EXCEPT !.B2 = @ + stepB2]
                            /\ walk_gain' = g2
    /\ UNCHANGED <<progVars, uploadVars, calledVars, signVars, serverVars,
                   loopVars, depthVars, etaVars>>

----------------------------------------------------------------------------
\* send_request: the salt and the signature of a request

\* guids and argument sets of the requests followed
Guids == 1..3
ArgSets == {"t=ga", "t=ap", "t=ar"}

\* `random.randint(0, sys.maxsize) & 0xFFFF`: some of the 65536 values
Salts == {0, 1, 65535}

\* md5(urlencode(args) + '&' + p_v5key).hexdigest().upper(), where p_v5key
\* is computed from the guid alone: the digest stands for its input
md5(url, guid) == [fixed |-> "", url |-> url, key |-> guid]

\* `args["ss"] = 19191919`, `args["sh"] = "ABCDABCDABCDABCDABCDABCDABCDABCD"`
FixedSalt == 19191919
FixedHash == [fixed |-> "ABCDABCDABCDABCDABCDABCDABCDABCD",
              url |-> [query |-> "", ss |-> 0], key |-> 0]

NoArgs == [guid |-> 0, query |-> "", ss |-> -1, sh |-> FixedHash]

\* secure_v5_url: args with the salt and the signature attached
secure_v5_url(guid, query, salt) ==
    [guid |-> guid, query |-> query, ss |-> salt,
     sh |-> md5([query |-> query, ss |-> salt], guid)]

\* idx = 3 if options.cudalucas else 2 if options.gpuowl else 1
Programs == {1, 2, 3}

\* the head of send_request, up to s.get(primenet_v5_burl, params=args)
send_request_args ==
    /\ prev_args = NoArgs
    /\ \E guid \in Guids, query \in ArgSets, salt \in Salts :
       args' = IF program_idx # 0
               THEN [guid |-> guid, query |-> query, ss |-> FixedSalt,
                     sh |-> FixedHash]
               ELSE secure_v5_url(guid, query, salt)
    /\ prev_args' = args
    /\ UNCHANGED program_idx
    /\ UNCHANGED <<progVars, uploadVars, calledVars, walkVars, serverVars,
                   loopVars, depthVars, etaVars>>

----------------------------------------------------------------------------
\* upload_proof in front of a server that reports the interval it still
\* needs

\* the largest proof file followed
MaxProofSize == 12

\* proof files are at least two bytes long
ProofSizes == 2..MaxProofSize

\* the reply of the server that holds the first `have` bytes of a file of
\* `size` bytes: the interval it still needs, FileUploaded after the chunk
\* that completed the file
TrueReply(have, size) ==
    IF have >= size THEN Reply("FileUploaded", 0, 0)
    ELSE Reply("need", have, size - 1)

\* upload_proof: the announce, answered with the remaining interval
upload_proof_served ==
    /\ thread = "announce"
    /\ LET r == TrueReply(stored, fileSize)
           o == upload_proof_announce_rc(r, fileSize)
       IN
       /\ upReply' = IF o = "need" THEN upReply
                     ELSE [at |-> "announce", kind |-> r.kind]
       /\ IF o = "need"
          THEN /\ pos' = r.pos
               /\ end' = r.end
               /\ thread' = IF r.pos < r.end THEN "chunk" ELSE "announce"
               /\ upret' = upret
          ELSE /\ thread' = "returned"
               /\ upret' = o
               /\ UNCHANGED <<pos, end>>
    /\ UNCHANGED <<stored, proofdir, retrying, fileSize, lastChunk>>
    /\ UNCHANGED <<progVars, calledVars, walkVars, signVars, loopVars,
                   depthVars, etaVars>>

\* upload_proof: one chunk, stored by the server and answered with the
\* remaining interval
upload_proof_chunk_served ==
    /\ thread = "chunk"
    /\ lastChunk' = [off |-> pos, size |-> DataSize(pos, end)]
    /\ stored' = IF pos <= stored /\ stored < pos + DataSize(pos, end)
                 THEN pos + DataSize(pos, end) ELSE stored
    /\ LET r == TrueReply(stored', fileSize)
           o == upload_proof_chunk_rc(r, pos, fileSize)
       IN
       /\ upReply' = IF o = "need" THEN upReply
                     ELSE [at |-> "chunk", kind |-> r.kind]
       /\ IF o = "need"
          THEN /\ pos' = r.pos
               /\ end' = r.end
               /\ thread' = IF r.pos < r.end THEN "chunk" ELSE "announce"
               /\ upret' = upret
          ELSE /\ thread' = "returned"
               /\ upret' = o
               /\ UNCHANGED <<pos, end>>
    /\ UNCHANGED <<proofdir, retrying, fileSize>>
    /\ UNCHANGED <<progVars, calledVars, walkVars, signVars, loopVars,
                   depthVars, etaVars>>

----------------------------------------------------------------------------
\* The main loop over the worker directories, call by call

\* `dirs`, options.password and options.timeout (<= 0: run once)
Options == [ndirs : {1, 2}, password : BOOLEAN, timeout : {0, 3600}]

\* what the login request of a cycle leads to: the page says "logged in",
\* it does not, or the request raises
Logins == {"logged in", "Login failed", "HTTPError", "ConnectionError"}

\* a call made for worker directory d; got is the value get_assignments
\* returned
Event(d, call, n) == [dir |-> d, call |-> call, got |-> n]

\* `if not options.password or primenet_login:`
Communicates(o, logged_in) == ~o.password \/ logged_in

\* `if got > 0 and not options.password:`
Redo_whenever_fetched(n, o) == n > 0
Redo(n, o) == n > 0 /\ ~o.password

\* while True: config_read and, with a password, the login; an exception
\* of the login request leaves primenet_login as it was
main_login ==
    /\ loop_pc = "while"
    /\ loops < MaxCycles
    /\ events' = <<>>
    /\ IF options.password
       THEN \E o \in Logins :
               /\ login' = o
               /\ primenet_login' = IF o = "logged in" THEN TRUE
                                    ELSE IF o = "Login failed" THEN FALSE
                                    ELSE primenet_login
       ELSE /\ login' = "none"
            /\ primenet_login' = primenet_login
    /\ worker' = 1
    /\ loop_pc' = "dir"
    /\ UNCHANGED <<options, loops>>
    /\ UNCHANGED <<progVars, uploadVars, calledVars, walkVars, signVars,
                   serverVars, depthVars, etaVars>>

\* for i, dir in enumerate(dirs): submit_work(dir), or nothing without a
\* login
dir_submit_work ==
    /\ loop_pc = "dir"
    /\ IF Communicates(options, primenet_login)
       THEN /\ events' = Append(events, Event(worker, "submit_work", -1))
            /\ loop_pc' = "update_progress_all"
       ELSE /\ events' = events
            /\ loop_pc' = "upload_proofs"
    /\ UNCHANGED <<options, primenet_login, login, worker, loops>>
    /\ UNCHANGED <<progVars, uploadVars, calledVars, walkVars, signVars,
                   serverVars, depthVars, etaVars>>

\* progress = update_progress_all(dir, cpu, last_time)
dir_update_progress_all ==
    /\ loop_pc = "update_progress_all"
    /\ events' = Append(events, Event(worker, "update_progress_all", -1))
    /\ loop_pc' = "get_assignments"
    /\ UNCHANGED <<options, primenet_login, login, worker, loops>>
    /\ UNCHANGED <<progVars, uploadVars, calledVars, walkVars, signVars,
                   serverVars, depthVars, etaVars>>

\* got = get_assignments(dir, cpu, progress)
dir_get_assignments ==
    /\ loop_pc = "get_assignments"
    /\ \E n \in 0..1 :
       /\ events' = Append(events, Event(worker, "get_assignments", n))
       /\ loop_pc' = IF Redo(n, options) THEN "redo" ELSE "upload_proofs"
    /\ UNCHANGED <<options, primenet_login, login, worker, loops>>
    /\ UNCHANGED <<progVars, uploadVars, calledVars, walkVars, signVars,
                   serverVars, depthVars, etaVars>>

\* time.sleep(1); update_progress_all(dir, cpu, last_time)
dir_redo ==
    /\ loop_pc = "redo"
    /\ events' = Append(events, Event(worker, "update_progress_all", -1))
    /\ loop_pc' = "upload_proofs"
    /\ UNCHANGED <<options, primenet_login, login, worker, loops>>
    /\ UNCHANGED <<progVars, uploadVars, calledVars, walkVars, signVars,
                   serverVars, depthVars, etaVars>>

\* `if options.timeout <= 0: upload_proofs(dir)`, then the next directory
dir_upload_proofs ==
    /\ loop_pc = "upload_proofs"
    /\ events' = IF options.timeout <= 0
                 THEN Append(events, Event(worker, "upload_proofs", -1))
                 ELSE events
    /\ IF worker < options.ndirs
       THEN worker' = worker + 1 /\ loop_pc' = "dir"
       ELSE worker' = worker /\ loop_pc' = "LastEndDatesSent"
    /\ UNCHANGED <<options, primenet_login, login, loops>>
    /\ UNCHANGED <<progVars, uploadVars, calledVars, walkVars, signVars,
                   serverVars, depthVars, etaVars>>

\* config.set("PrimeNet", "LastEndDatesSent", ...); config_write(config);
\* break with options.timeout <= 0, else the upload thread is started
main_config_write ==
    /\ loop_pc = "LastEndDatesSent"
    /\ events' = Append(events, Event(0, "LastEndDatesSent", -1))
    /\ loops' = loops + 1
    /\ loop_pc' = IF options.timeout <= 0 THEN "sys_exit" ELSE "sleep"
    /\ UNCHANGED <<options, primenet_login, login, worker>>
    /\ UNCHANGED <<progVars, uploadVars, calledVars, walkVars, signVars,
                   serverVars, depthVars, etaVars>>

\* time.sleep(options.timeout), ended by KeyboardInterrupt or not, and
\* thread.join()
main_sleep ==
    /\ loop_pc = "sleep"
    /\ \E interrupted \in BOOLEAN :
       loop_pc' = IF interrupted THEN "sys_exit" ELSE "while"
    /\ UNCHANGED <<options, primenet_login, login, worker, events, loops>>
    /\ UNCHANGED <<progVars, uploadVars, calledVars, walkVars, signVars,
                   serverVars, depthVars, etaVars>>

----------------------------------------------------------------------------
\* get_assignments: the target depth and the size of the queue

\* options.num_cache, options.password, the MaxExponents option of
\* local.ini (0: not set) and its NoMoreWork option
Caches == [num_cache : {0, 1, 20}, password : BOOLEAN,
           MaxExponents : {0, 1, 2}, NoMoreWork : BOOLEAN]

\* amax = config.getint("PrimeNet", "MaxExponents") if set, else 15
amax(c) == IF c.MaxExponents # 0 THEN c.MaxExponents ELSE MaxExponentsDefault

\* sizes of the queue found at start-up (assignments with distinct ids)
InitialSizes == {0, 14, 17}

\* numbers of lines the assignments block of a manual fetch may hold
ManualLines == 0..3

NoFetch == [target |-> 0, existing |-> 0, requested |-> FALSE, appended |-> 0]

\* one call of get_assignments: short tells whether the time left is within
\* DaysOfWork; the v5 fetch returns at most num_to_get lines, the manual
\* fetch any number; the lines fetched add nothing to the distinct ids when
\* they repeat an id or do not parse
get_assignments_depth ==
    /\ \E short \in BOOLEAN :
       LET target == TargetDepth(cache.num_cache, cache.password, short, amax(cache))
           d == target - num_existing
       IN
       IF cache.NoMoreWork \/ d <= 0
       THEN /\ fetch' = [target |-> target, existing |-> num_existing,
                         requested |-> FALSE, appended |-> 0]
            /\ num_existing' = num_existing
       ELSE \E n \in (IF cache.password THEN ManualLines ELSE 0..d) :
            \E fresh \in 0..n :
               /\ fetch' = [target |-> target, existing |-> num_existing,
                            requested |-> TRUE, appended |-> n]
               /\ num_existing' = num_existing + fresh
    /\ UNCHANGED <<cache, initial_size>>
    /\ UNCHANGED <<progVars, uploadVars, calledVars, walkVars, signVars,
                   serverVars, loopVars, etaVars>>

\* the GIMPS program finishes an assignment and removes it from the queue
assignment_done ==
    /\ num_existing > 0
    /\ num_existing' = num_existing - 1
    /\ UNCHANGED <<cache, initial_size, fetch>>
    /\ UNCHANGED <<progVars, uploadVars, calledVars, walkVars, signVars,
                   serverVars, loopVars, etaVars>>

----------------------------------------------------------------------------
\* update_progress_all: the ETAs of one cycle

\* the number of queued assignments followed
MaxEtaQueue == 2

\* msec_per_iter in seconds per iteration (CPUHours = 24 and RollingAverage
\* = 1000, so that time_left / 1000 is msec_per_iter / 1000 per iteration);
\* the speed of the first assignment is scaled to the exponent of each later
\* one, so any positive speed may apply to an assignment
Speeds == {5, 10}

\* options.gpuowl, options.timeout and whether a speed sample is available
EtaModes == [gpuowl : BOOLEAN, timeout : {0, 4000}, sampled : BOOLEAN]

\* `7 * 24 * 60 * 60`
Week == 604800

\* time_left as compute_progress returns it
TimeLeft(secs) == [known |-> TRUE, secs |-> secs]
NoneTimeLeft == [known |-> FALSE, secs |-> 0]

\* compute_progress: the time left of an assignment at speed s
compute_progress_time_left(a, it, s, bits, s2, m) ==
    LET test == IF a.work_type \in {WORK_TYPE_FIRST_LL, WORK_TYPE_DBLCHK,
                                    WORK_TYPE_PRP}
                THEN s * a.n ELSE 0
    IN
    IF ~m.sampled THEN NoneTimeLeft
    ELSE IF bits # 0
    THEN TimeLeft(s * (bits - it) + (s * bits * 6) \div 5 + test)
    ELSE IF s2 # 0
    THEN TimeLeft((IF ~m.gpuowl THEN s * (s2 - it) ELSE m.timeout \div 1000)
                  + test)
    ELSE TimeLeft(s * (Denominator(a, 0, 0) - it))

\* `cur_time_left += 7 * 24 * 60 * 60` or `cur_time_left += time_left`
Accumulate(cur, t) == cur + (IF t.known THEN t.secs ELSE Week)

\* update_progress for the next assignment of the queue: the ETA sent is
\* int(cur_time_left)
update_progress_eta ==
    /\ Len(sent_e) < MaxEtaQueue
    /\ \E a \in ProgressAssignments, u \in StageUnits, it \in 0..MaxIteration,
          s \in Speeds :
       /\ Scraped(it, u)
       /\ LET t == compute_progress_time_left(a, it, s, u.bits, u.s2, eta_mode)
          IN /\ cur_time_left' = Accumulate(cur_time_left, t)
             /\ sent_e' = Append(sent_e, [time_left |-> t,
                                          e |-> Accumulate(cur_time_left, t)])
    /\ UNCHANGED eta_mode
    /\ UNCHANGED <<progVars, uploadVars, calledVars, walkVars, signVars,
                   serverVars, loopVars, depthVars>>

----------------------------------------------------------------------------
\* Initial states

\* no call of send_request or parse_assignment followed on its own
AuxIdle ==
    /\ response = NoResponseYet
    /\ result = NoCall
    /\ gets = 0
    /\ calls = 0
    /\ queue_line = NoLineRead
    /\ parsed = "pending"
    /\ new_task = NoValueLine
    /\ assignment = PendingAssignment
    /\ new_tasks_i = NoValueLine
    /\ reparsed = PendingAssignment

\* compute_progress was not called
ProgressIdle ==
    /\ sampled = [a |-> [work_type |-> 0, n |-> 0],
                  units |-> [bits |-> 0, s2 |-> 0]]
    /\ iteration = -1
    /\ percent = NoPercent
    /\ last_percent = NoPercent

\* walk was not called
WalkIdle ==
    /\ walk_pc = "none"
    /\ walk_B = NoPoint
    /\ walk_gain = [p |-> 0, w |-> 0]
    /\ small = NoPoint
    /\ mid = NoPoint
    /\ visited = <<>>

\* no request followed for its salt and signature
SignIdle ==
    /\ program_idx = 1
    /\ args = NoArgs
    /\ prev_args = NoArgs

\* no upload followed on the side of the server
ServerIdle == stored = 0

\* the main loop is not followed call by call
LoopIdle ==
    /\ options = [ndirs |-> 1, password |-> FALSE, timeout |-> 3600]
    /\ primenet_login = FALSE
    /\ login = "none"
    /\ loop_pc = "none"
    /\ worker = 0
    /\ events = <<>>
    /\ loops = 0

\* get_assignments is not followed for the size of the queue
DepthIdle ==
    /\ cache = [num_cache |-> 0, password |-> FALSE, MaxExponents |-> 0,
                NoMoreWork |-> FALSE]
    /\ initial_size = 0
    /\ num_existing = 0
    /\ fetch = NoFetch

\* update_progress_all is not followed for its ETAs
EtaIdle ==
    /\ eta_mode = [gpuowl |-> FALSE, timeout |-> 0, sampled |-> FALSE]
    /\ cur_time_left = 0
    /\ sent_e = <<>>

OwnIdle ==
    WalkIdle /\ SignIdle /\ ServerIdle /\ LoopIdle /\ DepthIdle /\ EtaIdle

Init ==
    /\ pc \in {"submit_work", "unreserve_all"}
    /\ stack = <<>>
    /\ ret = NoRet
    /\ config \in [ComputerGUID : {0, 1}, NoMoreWork : BOOLEAN]
    /\ pc = "submit_work" => config.ComputerGUID = 1
    /\ pc = "unreserve_all" => ~config.NoMoreWork
    /\ workfile \in InitWorkfiles
    /\ results_sent = <<>>
    /\ results_send = <<>>
    /\ sent = <<>>
    /\ assignments = <<>>
    /\ progress = "None"
    /\ num_to_get = 0
    /\ tests = <<>>
    /\ got = -1
    /\ cycle = 0
    /\ nsent = 0
    /\ opRc = NoRc
    /\ ucSince = FALSE
    /\ nga = 0
    /\ opFn = "none"
    /\ sentTo = NoLine
    /\ rejected = {}
    /\ thread = "none"
    /\ proofdir = 0
    /\ retrying = FALSE
    /\ fileSize = 0
    /\ pos = 0
    /\ end = 0
    /\ upret = "None"
    /\ lastChunk = NoChunk
    /\ upReply = NoReply
    /\ AuxIdle
    /\ ProgressIdle
    /\ OwnIdle

Next ==
    \/ get_assignment
    \/ send_progress
    \/ report_result
    \/ assignment_unreserve
    \/ register_instance
    \/ program_options
    \/ submit_work
    \/ submit_one_line
    \/ submit_work_sent
    \/ update_progress_all
    \/ update_progress
    \/ update_progress_done
    \/ get_assignments
    \/ primenet_fetch
    \/ primenet_fetch_done
    \/ get_assignments_new_tasks
    \/ main_loop
    \/ sleep
    \/ thread_join
    \/ KeyboardInterrupt
    \/ sys_exit
    \/ aupload_proofs
    \/ upload_proof
    \/ upload_proof_chunk
    \/ upload_proofs
    \/ upload_proofs_raised
    \/ unreserve_all
    \/ unreserve_next
    \/ unreserve_done
    \/ unreserve_all_again

Spec == Init /\ [][Next]_vars

\* the program as the caller of one function: the main loop, the protocol
\* functions and the upload task are not running
Quiescent ==
    /\ stack = <<>>
    /\ ret = NoRet
    /\ config = [ComputerGUID |-> 1, NoMoreWork |-> FALSE]
    /\ results_sent = <<>>
    /\ results_send = <<>>
    /\ sent = <<>>
    /\ assignments = <<>>
    /\ progress = "None"
    /\ num_to_get = 0
    /\ got = -1
    /\ cycle = 0
    /\ nsent = 0
    /\ opRc = NoRc
    /\ ucSince = FALSE
    /\ nga = 0
    /\ opFn = "none"
    /\ sentTo = NoLine
    /\ rejected = {}
    /\ thread = "none"
    /\ proofdir = 0
    /\ retrying = FALSE
    /\ fileSize = 0
    /\ pos = 0
    /\ end = 0
    /\ upret = "None"
    /\ lastChunk = NoChunk
    /\ upReply = NoReply

NotRunning ==
    /\ pc = "none"
    /\ workfile = <<>>
    /\ tests = <<>>
    /\ Quiescent

InitTransport == NotRunning /\ AuxIdle /\ ProgressIdle /\ OwnIdle

NextTransport == send_request

\* send_request under every response of the server and the network
SpecTransport == InitTransport /\ [][NextTransport]_vars

InitParse == NotRunning /\ AuxIdle /\ ProgressIdle /\ OwnIdle

NextParse == parse_assignment_call

\* parse_assignment under every line of the bounded set
SpecParse == InitParse /\ [][NextParse]_vars

InitValues == NotRunning /\ AuxIdle /\ ProgressIdle /\ OwnIdle

NextValues == parse_assignment_validate

\* parse_assignment under every well-formed line of the bounded set
SpecValues == InitValues /\ [][NextValues]_vars

InitRewrite == NotRunning /\ AuxIdle /\ ProgressIdle /\ OwnIdle

NextRewrite == get_assignments_rewrite

\* the rewriting of every valid fetched line under every setting of the
\* options
SpecRewrite == InitRewrite /\ [][NextRewrite]_vars

\* update_progress in front of the log of one assignment
InitProgress ==
    /\ NotRunning
    /\ AuxIdle
    /\ sampled \in [a : ProgressAssignments, units : StageUnits]
    /\ iteration = -1
    /\ percent = NoPercent
    /\ last_percent = NoPercent
    /\ OwnIdle

NextProgress == update_progress_percent

\* compute_progress for every assignment and every course of its log
SpecProgress == InitProgress /\ [][NextProgress]_vars

\* stand-in for the number of lines one primenet_fetch returns
MaxFetched == 3

\* lines primenet_fetch can return: get_assignment checks the work type
\* and, for some work types, the size of the exponent, so a line may or
\* may not parse to a valid Assignment
FetchedTasks == [uid : {2, 3}, ok : BOOLEAN]

RECURSIVE SeqsUpTo(_, _)
SeqsUpTo(S, n) ==
    IF n = 0 THEN {<<>>}
    ELSE LET shorter == SeqsUpTo(S, n - 1) IN
         shorter \cup {Append(q, x) : q \in shorter, x \in S}

\* get_assignments at the return of primenet_fetch, with any new_tasks
InitAppend ==
    /\ pc = "new_tasks"
    /\ workfile \in InitWorkfiles
    /\ tests \in SeqsUpTo(FetchedTasks, MaxFetched)
    /\ Quiescent
    /\ AuxIdle
    /\ ProgressIdle
    /\ OwnIdle

NextAppend == get_assignments_new_tasks

\* the rest of get_assignments under every list of fetched lines
SpecAppend == InitAppend /\ [][NextAppend]_vars

\* stand-in for the number of lines of a queue file
MaxQueueLines == 3

\* lines of a queue file: the id (0: none), whether the line parses to a
\* valid Assignment, and n for the other fields of the line
QueueLines == [uid : 0..2, ok : BOOLEAN, n : {1, 2}]

\* unreserve_all in front of any queue file
InitQueue ==
    /\ pc = "unreserve_all"
    /\ workfile \in SeqsUpTo(QueueLines, MaxQueueLines)
    /\ tests = <<>>
    /\ Quiescent
    /\ AuxIdle
    /\ ProgressIdle
    /\ OwnIdle

NextQueue == unreserve_all

\* the queue built from every queue file of the bounded set
SpecQueue == InitQueue /\ [][NextQueue]_vars

\* walk at the head of its loop: the two starting bounds are nice numbers,
\* the gain there is any gain
InitWalk ==
    /\ NotRunning
    /\ AuxIdle
    /\ ProgressIdle
    /\ walk_pc = "loop"
    /\ walk_B \in {[B1 |-> nextNiceNumber(v1), B2 |-> nextNiceNumber(v2)] :
                     v1 \in StartB1, v2 \in StartB2}
    /\ walk_gain \in Gains
    /\ small = NoPoint
    /\ mid = NoPoint
    /\ visited = <<>>
    /\ SignIdle
    /\ ServerIdle
    /\ LoopIdle
    /\ DepthIdle
    /\ EtaIdle

NextWalk == walk_iteration

\* walk under every course of the values gain returns
SpecWalk == InitWalk /\ [][NextWalk]_vars

\* send_request before its first request, under every program option
InitSign ==
    /\ NotRunning
    /\ AuxIdle
    /\ ProgressIdle
    /\ WalkIdle
    /\ program_idx \in Programs
    /\ args = NoArgs
    /\ prev_args = NoArgs
    /\ ServerIdle
    /\ LoopIdle
    /\ DepthIdle
    /\ EtaIdle

NextSign == send_request_args

\* the arguments of two requests in a row
SpecSign == InitSign /\ [][NextSign]_vars

\* upload_proof at its first announce, for a file of which the server may
\* hold a part from an earlier upload
InitServed ==
    /\ pc = "none"
    /\ workfile = <<>>
    /\ tests = <<>>
    /\ stack = <<>>
    /\ ret = NoRet
    /\ config = [ComputerGUID |-> 1, NoMoreWork |-> FALSE]
    /\ results_sent = <<>>
    /\ results_send = <<>>
    /\ sent = <<>>
    /\ assignments = <<>>
    /\ progress = "None"
    /\ num_to_get = 0
    /\ got = -1
    /\ cycle = 0
    /\ nsent = 0
    /\ opRc = NoRc
    /\ ucSince = FALSE
    /\ nga = 0
    /\ opFn = "none"
    /\ sentTo = NoLine
    /\ rejected = {}
    /\ thread = "announce"
    /\ proofdir = 1
    /\ retrying = FALSE
    /\ fileSize \in ProofSizes
    /\ stored \in 0..(fileSize - 1)
    /\ pos = 0
    /\ end = 0
    /\ upret = "None"
    /\ lastChunk = NoChunk
    /\ upReply = NoReply
    /\ AuxIdle
    /\ ProgressIdle
    /\ WalkIdle
    /\ SignIdle
    /\ LoopIdle
    /\ DepthIdle
    /\ EtaIdle

NextServed ==
    \/ upload_proof_served
    \/ upload_proof_chunk_served

\* upload_proof and the server; no request of upload_proof is held back
\* for ever (every request has a timeout of 180 seconds)
SpecServed == InitServed /\ [][NextServed]_vars /\ WF_vars(NextServed)

\* the program at `while True:`, under every setting of the options
InitLoop ==
    /\ NotRunning
    /\ AuxIdle
    /\ ProgressIdle
    /\ WalkIdle
    /\ SignIdle
    /\ ServerIdle
    /\ options \in Options
    /\ primenet_login = FALSE
    /\ login = "none"
    /\ loop_pc = "while"
    /\ worker = 0
    /\ events = <<>>
    /\ loops = 0
    /\ DepthIdle
    /\ EtaIdle

NextLoop ==
    \/ main_login
    \/ dir_submit_work
    \/ dir_update_progress_all
    \/ dir_get_assignments
    \/ dir_redo
    \/ dir_upload_proofs
    \/ main_config_write
    \/ main_sleep

\* the main loop under every course of its calls
SpecLoop == InitLoop /\ [][NextLoop]_vars

\* get_assignments cycle after cycle, under every setting of the options
InitDepth ==
    /\ NotRunning
    /\ AuxIdle
    /\ ProgressIdle
    /\ WalkIdle
    /\ SignIdle
    /\ ServerIdle
    /\ LoopIdle
    /\ cache \in Caches
    /\ initial_size \in InitialSizes
    /\ num_existing = initial_size
    /\ fetch = NoFetch
    /\ EtaIdle

NextDepth ==
    \/ get_assignments_depth
    \/ assignment_done

\* the size of the queue under every course of the fetches
SpecDepth == InitDepth /\ [][NextDepth]_vars

\* update_progress_all before the first assignment of the queue
InitEta ==
    /\ NotRunning
    /\ AuxIdle
    /\ ProgressIdle
    /\ WalkIdle
    /\ SignIdle
    /\ ServerIdle
    /\ LoopIdle
    /\ DepthIdle
    /\ eta_mode \in EtaModes
    /\ cur_time_left = 0
    /\ sent_e = <<>>

NextEta == update_progress_eta

\* the ETAs of one cycle for every queue and every state of the logs
SpecEta == InitEta /\ [][NextEta]_vars

----------------------------------------------------------------------------
\* Properties

\* C1: one invocation of get_assignment, send_progress, report_result or
\* assignment_unreserve sends at most 5 requests of its own transaction
\* type, whatever the server answers; it returns without sending a 6th.
C1_AtMostFiveRequests == opFn \in OpTypes => nsent <= 5

\* an invocation that used all 5 attempts (none was answered) and returned
C1_FiveAttemptsUsed ==
    /\ opFn \in OpTypes
    /\ nsent = 5
    /\ opRc = NoResponse
    /\ stack = <<>>
    /\ ret \in {RetNone, RetFalse}

\* C2: in ga, ap, ar and au a non-zero result code other than 3, 30 and 32
\* is terminal: once it is received the invocation sends no further request
\* of its transaction type.
C2_OtherCodesTerminal ==
    [][(opFn \in OpTypes
        /\ opRc \in Codes \ {ERROR_OK, ERROR_SERVER_BUSY, ERROR_UNREGISTERED_CPU,
                             ERROR_STALE_CPU_INFO})
       => nsent' <= nsent]_vars

\* C3: in ga, ap, ar and au, when the answer is 30 or 32 and attempts
\* remain, the function calls register_instance (a uc request precedes the
\* next attempt of the original request).
C3_ReRegistersOn30And32 ==
    [][(opFn \in OpTypes
        /\ nsent' = nsent + 1
        /\ nsent' < 5
        /\ opRc' \in {ERROR_UNREGISTERED_CPU, ERROR_STALE_CPU_INFO})
       => (stack' # <<>> /\ Top(stack').fn = "uc")]_vars

\* C4: in ga, ap, ar and au, a server-busy answer (3) received while fewer
\* than 5 attempts have been made makes the function attempt the same
\* request again.
C4_ServerBusyRetried ==
    [][(opFn \in OpTypes
        /\ nsent' = nsent + 1
        /\ nsent' < 5
        /\ opRc' = ERROR_SERVER_BUSY)
       => (stack' # <<>> /\ stack'[1].fn = opFn /\ stack'[1].pc = "send")]_vars

\* C5: the nesting of register_instance and program_options stays bounded
\* for every sequence of server answers: the call stack never reaches the
\* interpreter's recursion limit.
C5_NestingBounded == pc # "RecursionError"

\* C6: existing lines of the queue file are never deleted or rewritten; the
\* file only changes by get_assignments appending the fetched lines.
C6_QueueOnlyAppended ==
    [][/\ Len(workfile) <= Len(workfile')
       /\ SubSeq(workfile', 1, Len(workfile)) = workfile
       /\ workfile' # workfile => pc = "new_tasks"]_vars

\* two fetched lines were appended to a queue file that had three lines
C6_Appended ==
    /\ got = 2
    /\ Len(workfile) = 5
    /\ SubSeq(workfile, 1, 3) = <<Task(1, TRUE), Task(1, TRUE), Task(0, TRUE)>>
    /\ SubSeq(workfile, 4, 5) = <<Task(2, TRUE), Task(2, TRUE)>>

\* C7: when a result submission is answered with 47, 43 or 40, the entry of
\* that assignment is gone from the queue file once submit_work has taken
\* the value report_result returned.
C7_RejectedEntryRemoved ==
    [][(pc = "submit_one_line"
        /\ opFn = "ar"
        /\ ret # NoRet
        /\ opRc \in {ERROR_WORK_NO_LONGER_NEEDED, ERROR_INVALID_ASSIGNMENT_KEY,
                     ERROR_NO_ASSIGNMENT})
       => \A i \in DOMAIN workfile' : workfile'[i].uid # sentTo.aid]_vars

\* C8: a result line the server answered with invalid parameter (7) is
\* never sent again, neither by the same report_result call nor on a later
\* poll cycle.
C8_RejectedLineNotResent ==
    /\ (opFn = "ar" /\ opRc = ERROR_INVALID_PARAMETER) => stack = <<>>
    /\ ~(opFn = "ar" /\ sentTo \in rejected /\ nsent >= 1)

\* C9: assignment_unreserve treats the answer 43 like 0: it returns at once,
\* without a retry and without an error outcome, and leaves the local files
\* (worktodo, local.ini, results_sent.txt) as they were, so that unreserving
\* an assignment again leaves the state the first unreserve left.
C9_UnreserveIdempotent ==
    [][(opFn = "au"
        /\ nsent' = nsent + 1
        /\ opRc' \in {ERROR_OK, ERROR_INVALID_ASSIGNMENT_KEY})
       => (/\ stack' = <<>>
           /\ ret' = RetNone
           /\ pc' = pc
           /\ workfile' = workfile
           /\ config' = config
           /\ results_sent' = results_sent)]_vars

\* the second --unreserve-all run: the assignment is unknown by now (43)
C9_UnreservedTwice ==
    /\ pc = "unreserve"
    /\ cycle = 1
    /\ opFn = "au"
    /\ nsent = 1
    /\ opRc = ERROR_INVALID_ASSIGNMENT_KEY
    /\ stack = <<>>
    /\ ret = RetNone

\* C10 (as stated): when the deficit d is positive, get_assignments issues
\* exactly d get-assignment operations.
C10_ExactlyDeficit == pc = "new_tasks" => nga = num_to_get

\* C10 (amended): get_assignments issues at most d get-assignment
\* operations, one per unit, and stops after the first one that returns no
\* assignment; it issues exactly d when each of them returns an assignment
\* and none when d <= 0 or NoMoreWork is set.
C10_UpToDeficit ==
    /\ nga <= num_to_get
    /\ (opFn = "ga" /\ Alive) => pc = "primenet_fetch"
    /\ pc = "new_tasks" =>
          nga = IF Len(tests) < num_to_get THEN Len(tests) + 1 ELSE num_to_get

\* a deficit of 2 and a first get_assignment that returned None
C10_StoppedEarly ==
    /\ pc = "new_tasks"
    /\ num_to_get = 2
    /\ nga = 1
    /\ tests = <<>>

\* C11: a progress push (ap) that the server answers with 0 ends the call
\* and leaves the worker's queue file and local.ini as they were.
C11_ProgressPushFrame ==
    [][(opFn = "ap" /\ nsent' = nsent + 1 /\ opRc' = ERROR_OK)
       => (/\ workfile' = workfile
           /\ config' = config
           /\ stack' = <<>>
           /\ ret' = RetNone)]_vars

\* a progress push of the main loop that was answered 0 at the first attempt
C11_ProgressPushed ==
    /\ pc = "update_progress"
    /\ opFn = "ap"
    /\ nsent = 1
    /\ opRc = ERROR_OK
    /\ stack = <<>>
    /\ ret = RetNone
    /\ workfile # <<>>

\* C12: within one call of upload_proof the offsets of successive chunks
\* are strictly increasing: the chunk about to be sent starts behind the
\* chunk sent before it.
C12_ChunkOffsetsIncrease ==
    (thread = "chunk" /\ lastChunk # NoChunk) => pos > lastChunk.off

\* C13: every chunk carries DataOffset = the need start the server reported
\* last and DataSize = min(end - pos + 1, 5 MiB); when the announce is
\* answered need = [0, size-1] for a file of at most 5 MiB, the first chunk
\* covers bytes 0..size-1 and a FileUploaded reply to it makes upload_proof
\* return true.
C13_ChunkCarriesNeed ==
    [][(thread = "chunk" /\ (thread' # "chunk" \/ pos' # pos))
       => (/\ lastChunk' = [off |-> pos,
                            size |-> IF end - pos + 1 < ChunkMax
                                     THEN end - pos + 1 ELSE ChunkMax]
           /\ (lastChunk = NoChunk /\ pos = 0 /\ end = fileSize - 1
               /\ fileSize <= ChunkMax)
              => (/\ lastChunk' = [off |-> 0, size |-> fileSize]
                  /\ upReply'.kind = "FileUploaded"
                     => (thread' = "returned" /\ upret' = "True")))]_vars

\* a file of at most 5 MiB went up in one chunk and upload_proof returned true
C13_WholeFileInOneChunk ==
    /\ thread = "returned"
    /\ upret = "True"
    /\ upReply = [at |-> "chunk", kind |-> "FileUploaded"]
    /\ fileSize <= ChunkMax
    /\ lastChunk = [off |-> 0, size |-> fileSize]

\* C14: an announce answered with error status 409 makes upload_proof return
\* true without sending a chunk; any other error status, on the announce or
\* on a chunk, makes it return false.
C14_AnnounceConflictIsSuccess ==
    [][upReply' # upReply
       => (/\ (upReply'.at = "announce" /\ upReply'.kind = "409")
              => (thread' = "returned" /\ upret' = "True"
                  /\ lastChunk' = lastChunk)
           /\ (upReply'.kind = "error"
               \/ (upReply'.at = "chunk" /\ upReply'.kind = "409"))
              => (thread' = "returned" /\ upret' = "False"))]_vars

\* the first announce was answered 409: true, and no chunk was sent
C14_AlreadyUploaded ==
    /\ thread = "returned"
    /\ upReply = [at |-> "announce", kind |-> "409"]
    /\ upret = "True"
    /\ lastChunk = NoChunk

\* C15: a proof file leaves the proof directory only after upload_proof
\* returned true for it; after a failed or aborted upload it stays, and the
\* next upload task attempts it again.
C15_RemovedOnlyAfterSuccess ==
    [][/\ proofdir' < proofdir => (thread = "returned" /\ upret = "True")
       /\ ((thread = "returned" /\ upret = "False") \/ thread = "raised")
          => proofdir' = proofdir
       /\ (thread = "started" /\ proofdir = 1 /\ thread' # thread)
          => (retrying' /\ thread' \in {"announce", "returned"})]_vars

\* the task of the second cycle announces the file the first one left
C15_AttemptedAgain ==
    /\ cycle = 2
    /\ thread = "announce"
    /\ retrying
    /\ proofdir = 1

\* C16: no upload task runs during a polling cycle or after the process
\* ended: the task started at the end of a cycle has ended before the next
\* cycle starts and before the process exits, so at most one task exists and
\* none of its steps interleaves with a polling cycle.
C16_UploadJoined ==
    /\ InCycle => thread \in {"none", "finished"}
    /\ pc \in {"done", "KeyboardInterrupt", "exit", "RecursionError"}
       => thread \in {"none", "finished"}

\* the second cycle starts after the first task ended, leaving its file
C16_JoinedBeforeNextCycle ==
    /\ pc = "submit_work"
    /\ cycle = 1
    /\ thread = "finished"
    /\ proofdir = 1

\* C17: a shutdown signal that arrives during a polling cycle does not end
\* the cycle: the process only starts to exit from the inter-cycle sleep.
C17_SignalLetsCycleFinish ==
    [][InCycle => pc' \notin {"exiting", "dying"}]_vars

C19_MalformedIsFailure ==
    calls > 0 /\ response.transport = "ok" =>
        IF response.hasResult /\ response.hasDetail /\ response.numeric
        THEN result = [kind |-> "result", rc |-> response.rc]
        ELSE result.kind = "None"

\* C20: parse_assignment yields an Assignment or a logged failure (None) and
\* never raises, for lines that fail the work pattern, lines that match it
\* with an N/A or 0 placeholder and lines that match it with fewer fields
\* than their tag requires.
C20_NeverRaises == parsed \in {"pending", "Assignment", "None"}

\* C21: every line get_assignments appends to the queue file parses to a
\* valid Assignment: a fetched line that fails parsing or validation is
\* skipped and not appended, the other fetched lines are appended.
C21_AppendedLinesValid ==
    \A i \in 1..Len(workfile) : parse_assignment(workfile[i]) # NoTask

\* the mathematical definition of a prime number
IsPrime(n) == n >= 2 /\ \A d \in 2..(n - 1) : n % d # 0

\* C22: is_prime agrees with the mathematical definition on every exponent
\* of the range; parse_assignment returns no assignment for a line with
\* k = 1, b = 2, c = -1 and a work type other than PMinus1 whose exponent
\* is composite or below 2, and returns one when the exponent is prime.
C22_CompositeExponentRejected ==
    assignment.kind # "pending" /\ new_task.tag # "PMinus1" =>
        LET n == IF new_task.tag \in {"Test", "DoubleCheck"}
                 THEN new_task.f[1] ELSE new_task.f[3]
            mersenne == \/ new_task.tag \in {"Test", "DoubleCheck"}
                        \/ /\ new_task.f[1] = 1
                           /\ new_task.f[2] = 2
                           /\ new_task.f[4] = -1
        IN /\ is_prime(n) <=> IsPrime(n)
           /\ mersenne => (assignment.kind = "None" <=> ~IsPrime(n))

\* the Test line with exponent 9941 yields a first-time LL assignment
C22_Test9941Parsed ==
    /\ new_task = ValueLine("Test", SomeUid, <<9941, 74, 1>>)
    /\ assignment.kind = "Assignment"
    /\ assignment.a.work_type = WORK_TYPE_FIRST_LL
    /\ assignment.a.n = 9941

\* C23: parse_assignment returns no assignment for every PMinus1 line whose
\* B1 is below 50000, whatever its k, base, exponent and c.
C23_SmallB1Rejected ==
    assignment.kind # "pending" /\ new_task.tag = "PMinus1"
        /\ new_task.f[5] < 50000
    => assignment.kind = "None"

\* the line PMinus1=...,2,3,100,-1,1000,2000 was rejected
C23_Scenario ==
    /\ new_task = ValueLine("PMinus1", SomeUid, <<2, 3, 100, -1, 1000, 2000>>)
    /\ assignment.kind = "None"

\* C24: every Assignment parse_assignment returns satisfies B2 >= B1
\* whenever B2 is present (non-zero).
C24_B2AtLeastB1 ==
    assignment.kind = "Assignment" /\ assignment.a.B2 # 0
    => assignment.a.B2 >= assignment.a.B1

\* the lines of the queue file that parse to a valid Assignment with id u
LinesOf(u) == {j \in 1..Len(workfile) : workfile[j].ok /\ workfile[j].uid = u}

First(S) == CHOOSE j \in S : \A k \in S : j <= k
Last(S) == CHOOSE j \in S : \A k \in S : j >= k

C26_RewrittenLineRoundTrips ==
    new_tasks_i # NoValueLine =>
        /\ reparsed.kind = "Assignment"
        /\ \A fld \in {"work_type", "uid", "k", "b", "n", "c", "sieve_depth",
                        "pminus1ed", "tests_saved", "prp_base",
                        "prp_residue_type", "known_factors", "prp_dblchk"} :
              reparsed.a[fld] = assignment.a[fld]

\* C27: no server answer to a fetch, progress push, result submission or
\* unreserve makes the agent process exit: a failed call, including one
\* whose re-registration or program-option exchange fails, is terminal for
\* that call only.
C27_NoAnswerExits == pc # "exit"

\* x / y <= u / v for quotients with positive divisors
Leq(q, r) == q.num * r.den <= r.num * q.den

\* C28: for a fixed assignment and fixed stage units compute_progress
\* returns percent 0 when iteration is 0, percent 1 when iteration equals
\* the denominator, and a percent that does not decrease as the iteration
\* increases.
C28_PercentMonotone ==
    iteration >= 0 =>
        /\ percent.den > 0
        /\ iteration = 0 => percent.num = 0
        /\ iteration = percent.den => percent.num = percent.den
        /\ last_percent # NoPercent => Leq(last_percent, percent)

\* a second update with a larger iteration, after one at iteration 0, that
\* reached the denominator
C28_FromZeroToOne ==
    /\ last_percent = Quotient(0, 5)
    /\ iteration = 5
    /\ percent = Quotient(5, 5)

\* C29: the denominator of percent is stage2Units when non-zero, else
\* stage1Units when non-zero, else the exponent for PRP and Cert work, else
\* exponent - 2 for LL work.
C29_Denominator ==
    /\ iteration >= 0
    /\ sampled.a.work_type \in {WORK_TYPE_FIRST_LL, WORK_TYPE_DBLCHK,
                                 WORK_TYPE_PRP, WORK_TYPE_CERT}
    => percent.den =
           IF sampled.units.s2 # 0 THEN sampled.units.s2
           ELSE IF sampled.units.bits # 0 THEN sampled.units.bits
           ELSE IF sampled.a.work_type \in {WORK_TYPE_PRP, WORK_TYPE_CERT}
           THEN sampled.a.n
           ELSE sampled.a.n - 2

\* C30: for every assignment and every progress sample the log scrapers can
\* produce, the percent compute_progress returns lies in [0, 1].
C30_PercentInUnitInterval ==
    iteration >= 0 => 0 <= percent.num /\ percent.num <= percent.den

----------------------------------------------------------------------------
\* walk

\* the visited points where both marginal ratios are below 1.0 / below 0.5
Below1 == {i \in 1..Len(visited) : visited[i].below1}
Below05 == {i \in 1..Len(visited) : visited[i].below05}

\* C31: whatever values the gain evaluations return, the three points walk
\* returns are ordered, conservative <= balanced <= aggressive in B1 and in
\* B2; the conservative point is the first visited point where both marginal
\* ratios are below 1.0, and the balanced point is the first where both are
\* below 0.5 (the final point when no visited point has both below 0.5).
C31_CheckpointsOrdered ==
    walk_pc = "returned"
    => /\ small.B1 <= mid.B1 /\ mid.B1 <= walk_B.B1
       /\ small.B2 <= mid.B2 /\ mid.B2 <= walk_B.B2
       /\ Below1 # {}
       /\ small = visited[First(Below1)].B
       /\ mid = IF Below05 # {} THEN visited[First(Below05)].B ELSE walk_B

\* a walk that returned three different points after three iterations
C31_ThreePoints ==
    /\ walk_pc = "returned"
    /\ Len(visited) = 3
    /\ small # mid
    /\ mid # walk_B
    /\ small = visited[1].B
    /\ mid = visited[2].B

\* C32: walk is guarded by an iteration cap: it has left its loop by the
\* time it has made MaxWalkSteps iterations, also when the stop condition
\* was never met.
C32_IterationCap == walk_pc = "loop" => Len(visited) < MaxWalkSteps

----------------------------------------------------------------------------
\* send_request: salt and signature

\* C33: every request send_request transmits carries a salt ss in 0..65535
\* and a signature sh that is the digest of (guid, salt, encoded arguments);
\* two requests with the same guid and arguments but different salts carry
\* different signatures.
C33_SaltedSignature ==
    args # NoArgs
    => /\ args.ss \in 0..65535
       /\ args.sh = secure_v5_url(args.guid, args.query, args.ss).sh
       /\ (/\ prev_args # NoArgs
           /\ prev_args.guid = args.guid
           /\ prev_args.query = args.query
           /\ prev_args.ss # args.ss) => prev_args.sh # args.sh

----------------------------------------------------------------------------
\* upload_proof and a server that reports the remaining interval

\* C34: for every file size, in front of a server that answers each
\* announce and each chunk with the true remaining interval [pos, end] (or
\* FileUploaded once nothing remains), upload_proof returns true after
\* finitely many requests, also when exactly one byte remains (pos = end).
C34_UploadCompletes == <>(thread = "returned" /\ upret = "True")

----------------------------------------------------------------------------
\* submit_work and the record of the results sent

----------------------------------------------------------------------------
\* The main loop

\* the calls of the current cycle made for worker directory d
CallsFor(d) == SelectSeq(events, LAMBDA e : e.dir = d)

\* the worker directories the current cycle has finished with
DirsDone ==
    {d \in 1..options.ndirs :
        \/ d < worker
        \/ loop_pc \in {"LastEndDatesSent", "sleep", "sys_exit"}
        \/ loop_pc = "while" /\ loops > 0}

\* C36: in each polling cycle and for each worker, results are submitted
\* before progress is pushed and progress is pushed before new assignments
\* are fetched; when at least one assignment was fetched in v5 mode a second
\* progress push follows the fetch; LastEndDatesSent is persisted only after
\* all workers were processed; with timeout <= 0 exactly one cycle runs and
\* the proofs are uploaded synchronously inside it.  (With a password and
\* without a login a worker is processed without any of these calls.)
C36_OrderOfCycle ==
    /\ \A d \in 1..options.ndirs :
          LET ev == CallsFor(d)
              comm == Len(ev) >= 1 /\ ev[1].call = "submit_work"
              redo == /\ Len(ev) >= 3
                      /\ ev[3].got > 0
                      /\ ~options.password
              order ==
                  (IF comm
                   THEN <<"submit_work", "update_progress_all",
                          "get_assignments">>
                   ELSE <<>>)
                  \o (IF redo THEN <<"update_progress_all">> ELSE <<>>)
                  \o (IF options.timeout <= 0
                      THEN <<"upload_proofs">> ELSE <<>>)
          IN /\ Len(ev) <= Len(order)
             /\ \A k \in 1..Len(ev) : ev[k].call = order[k]
             /\ d \in DirsDone
                => /\ Len(ev) = Len(order)
                   /\ comm = (~options.password \/ primenet_login)
    /\ \A k \in 1..Len(events) :
          events[k].call = "LastEndDatesSent"
          => k = Len(events) /\ DirsDone = 1..options.ndirs
    /\ options.timeout <= 0
       => /\ loop_pc # "sleep"
          /\ loops = (IF loop_pc = "sys_exit" THEN 1 ELSE 0)

\* a run with timeout <= 0 over two workers that has ended after its one
\* cycle: the first worker fetched an assignment in v5 mode and pushed its
\* progress twice, the second one fetched nothing, the proofs of both were
\* uploaded before LastEndDatesSent was written
C36_TwoWorkers ==
    /\ ~options.password
    /\ options.timeout <= 0
    /\ loop_pc = "sys_exit"
    /\ Len(events) = 10
    /\ events[3] = Event(1, "get_assignments", 1)
    /\ events[4] = Event(1, "update_progress_all", -1)
    /\ events[5] = Event(1, "upload_proofs", -1)
    /\ events[8] = Event(2, "get_assignments", 0)
    /\ events[9] = Event(2, "upload_proofs", -1)
    /\ events[10].call = "LastEndDatesSent"

\* C38: in password mode, a polling cycle performs result submission and
\* assignment fetch only if the login attempted in that same cycle
\* succeeded; a cycle whose login request failed (HTTP or connection error,
\* or rejected credentials) performs neither.
C38_LoginGuardsCycle ==
    (options.password /\ login # "logged in")
    => \A k \in 1..Len(events) :
          events[k].call \notin {"submit_work", "get_assignments"}

----------------------------------------------------------------------------
\* get_assignments and the size of the queue

\* C37: get_assignments sends no fetch request when NoMoreWork is set or
\* when the number of distinct-id queued assignments is at least the target
\* depth; the target depth never exceeds MaxExponents (default 15); in v5
\* mode one call appends at most (target depth - existing count) lines, so
\* repeated cycles never grow the distinct-id queue beyond
\* max(initial size, MaxExponents).
C37_QueueBounded ==
    /\ (cache.NoMoreWork \/ fetch.existing >= fetch.target)
       => ~fetch.requested /\ fetch.appended = 0
    /\ fetch.target <= amax(cache)
    /\ cache.MaxExponents = 0 => fetch.target <= 15
    /\ ~cache.password
       => /\ fetch.requested
             => fetch.appended <= fetch.target - fetch.existing
          /\ num_existing <= IF initial_size > amax(cache)
                             THEN initial_size ELSE amax(cache)

\* a call in v5 mode with --num-cache 20 and no MaxExponents option: the
\* target depth was cut to 15 and the one line missing was fetched
C37_FilledToDefault ==
    /\ ~cache.password
    /\ cache.num_cache = 20
    /\ cache.MaxExponents = 0
    /\ fetch = [target |-> 15, existing |-> 14, requested |-> TRUE,
                appended |-> 1]
    /\ num_existing = 15

----------------------------------------------------------------------------
\* update_progress_all: the ETAs

RECURSIVE SumOfEstimates(_)
SumOfEstimates(i) ==
    IF i = 0 THEN 0
    ELSE SumOfEstimates(i - 1)
         + (IF sent_e[i].time_left.known THEN sent_e[i].time_left.secs
            ELSE 7 * 24 * 60 * 60)

\* C39: within one progress cycle, the ETA sent for the i-th queued
\* assignment equals the sum of the estimated remaining times of assignments
\* 1..i, where an assignment with no speed estimate (null ETA) contributes 7
\* days; hence the ETAs sent in one cycle are non-negative and
\* non-decreasing in queue order.
C39_EtaCumulative ==
    \A i \in 1..Len(sent_e) :
       /\ sent_e[i].e = SumOfEstimates(i)
       /\ sent_e[i].e >= 0
       /\ i > 1 => sent_e[i].e >= sent_e[i - 1].e

====
